---- MODULE Spec2Model ----
(***************************************************************************)
(* A model of the firestore-path crate: validated identifiers, relative    *)
(* paths (CollectionPath / DocumentPath), rooted names (DatabaseName,      *)
(* RootDocumentName, CollectionName, DocumentName), their parsers, their   *)
(* Display implementations and the navigation operations between them.     *)
(*                                                                         *)
(* A Rust String is a sequence of one-character strings.  Every character  *)
(* of the model is ASCII, so str::len (a byte count) is Len.               *)
(* Result<T, Error> is a record: [ok |-> TRUE, val |-> v] or               *)
(* [ok |-> FALSE, err |-> kind]; a conversion error also carries the       *)
(* nested failure in the field src.  Option<T> is <<>> or <<v>>.           *)
(***************************************************************************)
EXTENDS Integers, Sequences, FiniteSets, Bags, TLC

VARIABLES
    op,        \* the operation applied last ("init" before any)
    input,     \* the string handed to a parser
    result,    \* what the last operation returned
    text,      \* the Display output of a parsed value
    again,     \* the result of parsing text once more
    recv,      \* the value the last navigation operation was called on
    arg,       \* the argument of the last navigation operation
    live,      \* the bag of values the program owns, each tagged with its type
    frame,     \* the loops and calls of an operation run step by step
    steps      \* the number of steps the program has made on its values

vars == <<op, input, result, text, again, recv, arg, live, frame, steps>>

(***************************************************************************)
(* Strings                                                                 *)
(***************************************************************************)
Rep(c, n) == [i \in 1..n |-> c]

Lower == {"a", "b", "c", "d", "e", "f", "g", "h", "i", "j", "k", "l", "m",
          "n", "o", "p", "q", "r", "s", "t", "u", "v", "w", "x", "y", "z"}
Digit == {"0", "1", "2", "3", "4", "5", "6", "7", "8", "9"}

is_ascii_lowercase(c) == c \in Lower
is_ascii_digit(c) == c \in Digit

contains_char(s, c) == \E i \in 1..Len(s) : s[i] = c

starts_with(s, p) == Len(s) >= Len(p) /\ SubSeq(s, 1, Len(p)) = p

ends_with(s, p) == Len(s) >= Len(p) /\ SubSeq(s, Len(s) - Len(p) + 1, Len(s)) = p

contains(s, w) == \E i \in 1..(Len(s) - Len(w) + 1) : SubSeq(s, i, i + Len(w) - 1) = w

RECURSIVE Ascending(_)
Ascending(S) ==
    IF S = {} THEN <<>>
    ELSE LET m == CHOOSE x \in S : \A y \in S : x <= y
         IN  <<m>> \o Ascending(S \ {m})

\* str::split('/'): the pieces between the separators, empty pieces included.
split(s) ==
    LET cut == <<0>> \o Ascending({i \in 1..Len(s) : s[i] = "/"}) \o <<Len(s) + 1>>
    IN  [k \in 1..(Len(cut) - 1) |-> SubSeq(s, cut[k] + 1, cut[k + 1] - 1)]

\* rsplit_once written as split_once: the text is cut at the first '/'.
rsplit_once_first(s) ==
    LET at == {i \in 1..Len(s) : s[i] = "/"}
    IN  IF at = {} THEN <<>>
        ELSE LET first == CHOOSE i \in at : \A j \in at : i <= j
             IN  << <<SubSeq(s, 1, first - 1), SubSeq(s, first + 1, Len(s))>> >>

\* str::rsplit_once('/'): None, or the text before and after the last '/'.
rsplit_once(s) ==
    LET at == {i \in 1..Len(s) : s[i] = "/"}
    IN  IF at = {} THEN <<>>
        ELSE LET last == CHOOSE i \in at : \A j \in at : j <= i
             IN  << <<SubSeq(s, 1, last - 1), SubSeq(s, last + 1, Len(s))>> >>

\* [&str]::join("/")
RECURSIVE join(_)
join(parts) ==
    IF Len(parts) = 0 THEN <<>>
    ELSE IF Len(parts) = 1 THEN parts[1]
    ELSE parts[1] \o <<"/">> \o join(Tail(parts))

S_projects == <<"p", "r", "o", "j", "e", "c", "t", "s">>
S_databases == <<"d", "a", "t", "a", "b", "a", "s", "e", "s">>
S_documents == <<"d", "o", "c", "u", "m", "e", "n", "t", "s">>
S_default == <<"(", "d", "e", "f", "a", "u", "l", "t", ")">>
S_google == <<"g", "o", "o", "g", "l", "e">>
S_null == <<"n", "u", "l", "l">>
S_undefined == <<"u", "n", "d", "e", "f", "i", "n", "e", "d">>
S_ssl == <<"s", "s", "l">>

(***************************************************************************)
(* Result and Option                                                       *)
(***************************************************************************)
Ok(v) == [ok |-> TRUE, val |-> v]
Err(kind) == [ok |-> FALSE, err |-> kind]
\* Error::from(ErrorKind::<kind>(e.to_string()))
ConversionErr(kind, e) == [ok |-> FALSE, err |-> kind, src |-> e]
\* a call that unwinds instead of returning (unreachable!())
Panic(what) == [ok |-> FALSE, panic |-> what]

\* `let v = r?; F(v)`: a failure is returned as it is, a value is handed on.
AndThen(r, F(_)) == IF r.ok THEN F(r.val) ELSE r
\* `Ok(F(r?))`
MapOk(r, F(_)) == IF r.ok THEN Ok(F(r.val)) ELSE r
\* r.map_err(|e| Error::from(ErrorKind::<kind>(e.to_string())))
MapErr(r, kind) == IF r.ok THEN r ELSE ConversionErr(kind, r)

\* the character U+0060 (grave accent), which a string of this language cannot
\* hold: a piece of a message that stands for that one character
Backquote == "U+0060"

\* Display of ErrorKind: the message of each kind up to its {0}, as the list of
\* the pieces that make it up when written in a row
ErrorKind_fmt(kind) ==
    CASE kind = "CollectionPathConversion" -> <<"collection path conversion ">>
      [] kind = "ContainsInvalidCharacter" -> <<"contains invalid charactor">>
      [] kind = "ContainsSlash" -> <<"contains slash">>
      [] kind = "DocumentIdConversion" -> <<"document id conversion ">>
      [] kind = "DocumentPathConversion" -> <<"document path conversion ">>
      [] kind = "EndsWithHyphen" -> <<"ends with hyphen">>
      [] kind = "InvalidName" -> <<"invalid name">>
      [] kind = "InvalidNumberOfPathComponents" -> <<"invalid number of path components">>
      [] kind = "LengthOutOfBounds" -> <<"byte length exceeded">>
      [] kind = "MatchesReservedIdPattern" -> <<"matches the regular expression ", Backquote, "__.*__", Backquote>>
      [] kind = "NotContainsSlash" -> <<"not contains slash">>
      [] kind = "SinglePeriodOrDoublePeriods" -> <<"single period or double periods">>
      [] kind = "StartsWithNonLetter" -> <<"starts with non letter">>

\* Display of Error (transparent): the message of its kind, followed for a
\* conversion kind by the message it carries ({0}); the pieces in a row
RECURSIVE Error_fmt(_)
Error_fmt(e) ==
    IF "src" \in DOMAIN e THEN ErrorKind_fmt(e.err) \o Error_fmt(e.src)
    ELSE ErrorKind_fmt(e.err)

None == <<>>
Some(v) == <<v>>

\* s.chars().next() and s.chars().next_back()
chars_next(s) == IF Len(s) = 0 THEN None ELSE Some(s[1])
chars_next_back(s) == IF Len(s) = 0 THEN None ELSE Some(s[Len(s)])

\* a - b on usize: no value when the difference would be negative
usize_sub(a, b) == IF a < b THEN None ELSE Some(a - b)

\* parts[0..n] and parts[n..] are within the vector
in_range(parts, n) == n <= Len(parts)

(***************************************************************************)
(* Identifiers                                                             *)
(***************************************************************************)
ProjectIdMinLen == 6
ProjectIdMaxLen == 30
DatabaseIdMinLen == 4
DatabaseIdMaxLen == 63
CollectionIdMaxLen == 1500
DocumentIdMaxLen == 1500

ProjectId(s) == [inner |-> s]
DatabaseId(s) == [inner |-> s]
CollectionId(s) == [inner |-> s]
DocumentId(s) == [inner |-> s]

\* ProjectId_try_from with the length range written half-open, (6..30).
ProjectId_try_from_half_open(s) ==
    IF ~(Len(s) \in ProjectIdMinLen..(ProjectIdMaxLen - 1)) THEN Err("ToDo")
    ELSE IF ~(\A i \in 1..Len(s) :
                is_ascii_lowercase(s[i]) \/ is_ascii_digit(s[i]) \/ s[i] = "-")
        THEN Err("ToDo")
    ELSE IF ~is_ascii_lowercase(s[1]) THEN Err("ToDo")
    ELSE IF s[Len(s)] = "-" THEN Err("ToDo")
    ELSE IF contains(s, S_google) \/ contains(s, S_null)
            \/ contains(s, S_undefined) \/ contains(s, S_ssl)
        THEN Err("ToDo")
    ELSE Ok(ProjectId(s))

ProjectId_try_from(s) ==
    IF ~(Len(s) \in ProjectIdMinLen..ProjectIdMaxLen) THEN Err("ToDo")
    ELSE IF ~(\A i \in 1..Len(s) :
                is_ascii_lowercase(s[i]) \/ is_ascii_digit(s[i]) \/ s[i] = "-")
        THEN Err("ToDo")
    ELSE IF chars_next(s) = None THEN Panic("already length checked")
    ELSE IF ~is_ascii_lowercase(chars_next(s)[1]) THEN Err("ToDo")
    ELSE IF chars_next_back(s) = None THEN Panic("already length checked")
    ELSE IF chars_next_back(s)[1] = "-" THEN Err("ToDo")
    ELSE IF contains(s, S_google) \/ contains(s, S_null)
            \/ contains(s, S_undefined) \/ contains(s, S_ssl)
        THEN Err("ToDo")
    ELSE Ok(ProjectId(s))

ProjectId_fmt(v) == v.inner

\* DatabaseId_try_from without the early return for "(default)".
DatabaseId_try_from_no_literal(s) ==
    IF ~(Len(s) \in DatabaseIdMinLen..DatabaseIdMaxLen) THEN Err("LengthOutOfBounds")
    ELSE IF ~(\A i \in 1..Len(s) :
                is_ascii_lowercase(s[i]) \/ is_ascii_digit(s[i]) \/ s[i] = "-")
        THEN Err("ContainsInvalidCharacter")
    ELSE IF ~is_ascii_lowercase(s[1]) THEN Err("StartsWithNonLetter")
    ELSE IF ends_with(s, <<"-">>) THEN Err("EndsWithHyphen")
    ELSE Ok(DatabaseId(s))

DatabaseId_try_from(s) ==
    IF s = S_default THEN Ok(DatabaseId(s))
    ELSE IF ~(Len(s) \in DatabaseIdMinLen..DatabaseIdMaxLen) THEN Err("LengthOutOfBounds")
    ELSE IF ~(\A i \in 1..Len(s) :
                is_ascii_lowercase(s[i]) \/ is_ascii_digit(s[i]) \/ s[i] = "-")
        THEN Err("ContainsInvalidCharacter")
    ELSE IF chars_next(s) = None THEN Panic("already length checked")
    ELSE IF ~is_ascii_lowercase(chars_next(s)[1]) THEN Err("StartsWithNonLetter")
    ELSE IF ends_with(s, <<"-">>) THEN Err("EndsWithHyphen")
    ELSE Ok(DatabaseId(s))

\* DatabaseId_default with the parentheses left out.
DatabaseId_default_bare == DatabaseId(SubSeq(S_default, 2, Len(S_default) - 1))

DatabaseId_default == DatabaseId(S_default)

DatabaseId_fmt(v) == v.inner

\* CollectionId_try_from with the reserved pattern tested as "starts or ends".
CollectionId_try_from_either_end(s) ==
    IF ~(Len(s) \in 1..CollectionIdMaxLen) THEN Err("LengthOutOfBounds")
    ELSE IF contains_char(s, "/") THEN Err("ContainsSlash")
    ELSE IF s = <<".">> \/ s = <<".", ".">> THEN Err("SinglePeriodOrDoublePeriods")
    ELSE IF starts_with(s, <<"_", "_">>) \/ ends_with(s, <<"_", "_">>)
        THEN Err("MatchesReservedIdPattern")
    ELSE Ok(CollectionId(s))

CollectionId_try_from(s) ==
    IF ~(Len(s) \in 1..CollectionIdMaxLen) THEN Err("LengthOutOfBounds")
    ELSE IF contains_char(s, "/") THEN Err("ContainsSlash")
    ELSE IF s = <<".">> \/ s = <<".", ".">> THEN Err("SinglePeriodOrDoublePeriods")
    ELSE IF starts_with(s, <<"_", "_">>) /\ ends_with(s, <<"_", "_">>)
        THEN Err("MatchesReservedIdPattern")
    ELSE Ok(CollectionId(s))

CollectionId_fmt(v) == v.inner

\* DocumentId_try_from with the test for '/' before the test of the length.
DocumentId_try_from_slash_first(s) ==
    IF contains_char(s, "/") THEN Err("ContainsSlash")
    ELSE IF ~(Len(s) \in 1..DocumentIdMaxLen) THEN Err("LengthOutOfBounds")
    ELSE IF s = <<".">> \/ s = <<".", ".">> THEN Err("SinglePeriodOrDoublePeriods")
    ELSE IF starts_with(s, <<"_", "_">>) /\ ends_with(s, <<"_", "_">>)
        THEN Err("MatchesReservedIdPattern")
    ELSE Ok(DocumentId(s))

DocumentId_try_from(s) ==
    IF ~(Len(s) \in 1..DocumentIdMaxLen) THEN Err("LengthOutOfBounds")
    ELSE IF contains_char(s, "/") THEN Err("ContainsSlash")
    ELSE IF s = <<".">> \/ s = <<".", ".">> THEN Err("SinglePeriodOrDoublePeriods")
    ELSE IF starts_with(s, <<"_", "_">>) /\ ends_with(s, <<"_", "_">>)
        THEN Err("MatchesReservedIdPattern")
    ELSE Ok(DocumentId(s))

DocumentId_fmt(v) == v.inner

(***************************************************************************)
(* CollectionPath and DocumentPath                                         *)
(*   CollectionPath: [document_path : Option<DocumentPath>, collection_id] *)
(*   DocumentPath:   [collection_path : CollectionPath, document_id]       *)
(***************************************************************************)
CollectionPath_new(parent, collection_id) ==
    [document_path |-> parent, collection_id |-> collection_id]

DocumentPath_new(collection_path, document_id) ==
    [collection_path |-> collection_path, document_id |-> document_id]

CollectionPath_from_CollectionId(collection_id) == CollectionPath_new(None, collection_id)

CollectionPath_into_tuple(self) == <<self.document_path, self.collection_id>>

DocumentPath_into_tuple(self) == <<self.collection_path, self.document_id>>

CollectionPath_collection_id(self) == self.collection_id

DocumentPath_document_id(self) == self.document_id

\* CollectionPath::into_parent that climbs one document too far: the document
\* above the parent document, if any.
CollectionPath_into_parent_grand(self) ==
    IF self.document_path = None THEN None
    ELSE self.document_path[1].collection_path.document_path

\* CollectionPath::into_parent is called by DocumentName::into_parent_document_name
\* but its body is not part of the sources at hand: it hands over the owned parent,
\* with the optionality of parent().
CollectionPath_into_parent(self) == self.document_path

\* DocumentPath::into_parent, likewise: the owned parent, which is always present.
DocumentPath_into_parent(self) == self.collection_path

CollectionPath_parent(self) == self.document_path

DocumentPath_parent(self) == self.collection_path

CollectionPath_from_DocumentPath(document_path) == document_path.collection_path

DocumentId_from_DocumentPath(document_path) == document_path.document_id

CollectionId_from_CollectionPath(collection_path) == collection_path.collection_id

OptionDocumentPath_from_CollectionPath(collection_path) == collection_path.document_path

RECURSIVE CollectionPath_try_from(_), DocumentPath_try_from(_)
CollectionPath_try_from(s) ==
    LET sp == rsplit_once(s)
    IN  IF sp # None
        THEN AndThen(DocumentPath_try_from(sp[1][1]), LAMBDA d :
                 MapOk(CollectionId_try_from(sp[1][2]), LAMBDA c :
                     [document_path |-> Some(d), collection_id |-> c]))
        ELSE MapOk(CollectionId_try_from(s), LAMBDA c :
                 [document_path |-> None, collection_id |-> c])

DocumentPath_try_from(s) ==
    LET sp == rsplit_once(s)
    IN  IF sp # None
        THEN AndThen(CollectionPath_try_from(sp[1][1]), LAMBDA c :
                 MapOk(DocumentId_try_from(sp[1][2]), LAMBDA d :
                     [collection_path |-> c, document_id |-> d]))
        ELSE Err("NotContainsSlash")

\* What one call of CollectionPath::try_from or DocumentPath::try_from on t
\* returns, given what its recursive call returned (None when it made none).
frame_return(kind, t, inner) ==
    IF rsplit_once(t) # None
    THEN IF kind = "CollectionPath"
         THEN AndThen(inner[1], LAMBDA d :
                  MapOk(CollectionId_try_from(rsplit_once(t)[1][2]), LAMBDA c :
                      [document_path |-> Some(d), collection_id |-> c]))
         ELSE AndThen(inner[1], LAMBDA c :
                  MapOk(DocumentId_try_from(rsplit_once(t)[1][2]), LAMBDA d :
                      [collection_path |-> c, document_id |-> d]))
    ELSE IF kind = "CollectionPath"
         THEN MapOk(CollectionId_try_from(t), LAMBDA c :
                  [document_path |-> None, collection_id |-> c])
         ELSE Err("NotContainsSlash")

\* DocumentPath's Display writing the document id alone, without the collection path.
DocumentPath_fmt_leaf(self) == DocumentId_fmt(self.document_id)

RECURSIVE CollectionPath_fmt(_), DocumentPath_fmt(_)
CollectionPath_fmt(self) ==
    IF self.document_path # None
    THEN DocumentPath_fmt(self.document_path[1]) \o <<"/">> \o CollectionId_fmt(self.collection_id)
    ELSE CollectionId_fmt(self.collection_id)

DocumentPath_fmt(self) ==
    CollectionPath_fmt(self.collection_path) \o <<"/">> \o DocumentId_fmt(self.document_id)

(***************************************************************************)
(* Generic arguments.  An argument of a descend operation is anything that *)
(* converts to the wanted type (T: TryInto<..>): a string ([str |-> s],    *)
(* parsed), or a value that is already structured, converted by the From   *)
(* impl of its type and infallibly: an identifier ([id |-> v]), a relative *)
(* path ([path |-> v]) or a qualified name ([name |-> v]).  A DocumentPath  *)
(* converts to the CollectionPath it lies in and to its own DocumentId, a  *)
(* CollectionName to its CollectionPath, a DocumentName to its             *)
(* DocumentPath and to its DocumentId.                                     *)
(***************************************************************************)
StrArg(s) == [str |-> s]
IdArg(v) == [id |-> v]
PathArg(v) == [path |-> v]
NameArg(v) == [name |-> v]

\* the structured argument is a DocumentPath, a CollectionPath, a DocumentName
IsDocumentPathArg(a) == "path" \in DOMAIN a /\ "document_id" \in DOMAIN a.path
IsCollectionPathArg(a) == "path" \in DOMAIN a /\ "collection_id" \in DOMAIN a.path
IsDocumentNameArg(a) == "name" \in DOMAIN a /\ "document_path" \in DOMAIN a.name
IsCollectionNameArg(a) == "name" \in DOMAIN a /\ "collection_path" \in DOMAIN a.name

CollectionPath_from_CollectionName(collection_name) == collection_name.collection_path

DocumentId_from_DocumentName(document_name) ==
    DocumentId_from_DocumentPath(document_name.document_path)

DocumentPath_from_DocumentName(document_name) == document_name.document_path

TryIntoDocumentId(a) ==
    IF "str" \in DOMAIN a THEN DocumentId_try_from(a.str)
    ELSE IF "id" \in DOMAIN a THEN Ok(a.id)
    ELSE IF "path" \in DOMAIN a THEN Ok(DocumentId_from_DocumentPath(a.path))
    ELSE Ok(DocumentId_from_DocumentName(a.name))

TryIntoCollectionPath(a) ==
    IF "str" \in DOMAIN a THEN CollectionPath_try_from(a.str)
    ELSE IF "id" \in DOMAIN a THEN Ok(CollectionPath_from_CollectionId(a.id))
    ELSE IF IsDocumentPathArg(a) THEN Ok(CollectionPath_from_DocumentPath(a.path))
    ELSE IF "path" \in DOMAIN a THEN Ok(a.path)
    ELSE Ok(CollectionPath_from_CollectionName(a.name))

TryIntoDocumentPath(a) ==
    IF "str" \in DOMAIN a THEN DocumentPath_try_from(a.str)
    ELSE IF "path" \in DOMAIN a THEN Ok(a.path)
    ELSE Ok(DocumentPath_from_DocumentName(a.name))

\* CollectionPath_doc that takes a string argument as the document id without
\* validating it.
CollectionPath_doc_unchecked(self, document_id) ==
    MapOk(IF "str" \in DOMAIN document_id THEN Ok(DocumentId(document_id.str))
          ELSE TryIntoDocumentId(document_id),
          LAMBDA d : DocumentPath_new(self, d))

CollectionPath_doc(self, document_id) ==
    MapOk(MapErr(TryIntoDocumentId(document_id), "DocumentIdConversion"),
          LAMBDA d : DocumentPath_new(self, d))

\* decompose_step leaving the loop after its first turn, whatever the parent.
decompose_step_once(collection_path, path_components) ==
    [path_components |->
         Append(path_components,
                [i |-> "C", id |-> CollectionPath_into_tuple(collection_path)[2]]),
     collection_path |-> None]

\* One turn of the first loop of DocumentPath::collection: push the collection id,
\* and either push the parent's document id and go on with the parent's collection
\* path, or (collection_path |-> None) break.
decompose_step(collection_path, path_components) ==
    LET t == CollectionPath_into_tuple(collection_path)
        pushed == Append(path_components, [i |-> "C", id |-> t[2]])
    IN  IF t[1] # None
        THEN [path_components |->
                  Append(pushed, [i |-> "D", id |-> DocumentPath_into_tuple(t[1][1])[2]]),
              collection_path |-> Some(DocumentPath_into_tuple(t[1][1])[1])]
        ELSE [path_components |-> pushed, collection_path |-> None]

\* The first loop of DocumentPath::collection: the identifiers of the argument,
\* leaf first, each tagged I::C (collection id) or I::D (document id).
RECURSIVE path_components(_)
path_components(collection_path) ==
    LET t == CollectionPath_into_tuple(collection_path)
    IN  <<[i |-> "C", id |-> t[2]]>> \o
        (IF t[1] # None
         THEN LET u == DocumentPath_into_tuple(t[1][1])
              IN  <<[i |-> "D", id |-> u[2]]>> \o path_components(u[1])
         ELSE <<>>)

\* One turn of the second loop: match (result, path_component).
rebuild_step(res, pc) ==
    IF "panic" \in DOMAIN res THEN res
    ELSE IF res.p = pc.i THEN Panic("unreachable")
    ELSE IF res.p = "C" THEN [p |-> "D", v |-> DocumentPath_new(res.v, pc.id)]
    ELSE [p |-> "C", v |-> CollectionPath_new(Some(res.v), pc.id)]

\* The second loop without .rev(): the list is walked from its first element.
RECURSIVE rebuild_forward(_, _, _)
rebuild_forward(res, comps, k) ==
    IF k = 0 THEN res
    ELSE rebuild_forward(rebuild_step(res, comps[Len(comps) - k + 1]), comps, k - 1)

\* for path_component in path_components.into_iter().rev(): the list is walked
\* from its last element to its first.
RECURSIVE rebuild(_, _, _)
rebuild(res, comps, k) ==
    IF k = 0 THEN res ELSE rebuild(rebuild_step(res, comps[k]), comps, k - 1)

\* match result { P::C(c) => c, P::D(_) => unreachable!() }
rebuilt(res) ==
    IF "panic" \in DOMAIN res THEN res
    ELSE IF res.p = "C" THEN Ok(res.v)
    ELSE Panic("unreachable")

collection_under(self, comps) == rebuilt(rebuild([p |-> "D", v |-> self], comps, Len(comps)))

DocumentPath_collection(self, collection_path) ==
    AndThen(MapErr(TryIntoCollectionPath(collection_path), "CollectionIdConversion"),
            LAMBDA c : collection_under(self, path_components(c)))

\* DocumentPath::into_collection that converts the argument and returns it as it
\* is, without placing it under self.
DocumentPath_into_collection_detached(self, collection_path) ==
    MapErr(TryIntoCollectionPath(collection_path), "CollectionIdConversion")

\* DocumentPath::into_collection is called by DocumentName::into_collection but
\* its body is not part of the sources at hand, which have the consuming
\* DocumentPath::collection in its place.
DocumentPath_into_collection(self, collection_path) ==
    DocumentPath_collection(self, collection_path)

\* DocumentPath::into_doc is called by DocumentName::into_doc but its body is not
\* part of the sources at hand: the appended document path is re-rooted under
\* self, its collection path first and its document id last.
DocumentPath_into_doc(self, document_path) ==
    AndThen(MapErr(TryIntoDocumentPath(document_path), "DocumentPathConversion"),
            LAMBDA d :
                AndThen(DocumentPath_into_collection(self, PathArg(DocumentPath_into_tuple(d)[1])),
                        LAMBDA c : CollectionPath_doc(c, IdArg(DocumentPath_into_tuple(d)[2]))))

\* DocumentPath::doc, the borrowing form of into_doc, is likewise not part of the
\* sources at hand.
DocumentPath_doc(self, document_path) == DocumentPath_into_doc(self, document_path)

(***************************************************************************)
(* DatabaseName and RootDocumentName                                       *)
(*   DatabaseName:     [database_id, project_id]                           *)
(*   RootDocumentName: [database_name]                                     *)
(***************************************************************************)
NameMaxLen == 1024 * 6

DatabaseName_new(project_id, database_id) ==
    [database_id |-> database_id, project_id |-> project_id]

TryIntoProjectId(a) ==
    IF "str" \in DOMAIN a THEN ProjectId_try_from(a.str) ELSE Ok(a.id)

\* DatabaseName_from_project_id pairing the project id with the database id "default1".
DatabaseName_from_project_id_other(project_id) ==
    MapOk(MapErr(TryIntoProjectId(project_id), "ProjectIdConversion"),
          LAMBDA p : DatabaseName_new(p, DatabaseId(S_default \o <<"1">>)))

\* DatabaseName::from_project_id is used by the crate's documentation and tests but
\* its body is not part of the sources at hand: the project id is converted as the
\* arguments of the descend operations are, and paired with the default DatabaseId.
DatabaseName_from_project_id(project_id) ==
    MapOk(MapErr(TryIntoProjectId(project_id), "ProjectIdConversion"),
          LAMBDA p : DatabaseName_new(p, DatabaseId_default))

RootDocumentName_new(database_name) == [database_name |-> database_name]

\* RootDocumentName_from_DatabaseName that keeps the project and takes the default database.
RootDocumentName_from_DatabaseName_default(database_name) ==
    [database_name |-> DatabaseName_new(database_name.project_id, DatabaseId_default)]

RootDocumentName_from_DatabaseName(database_name) == [database_name |-> database_name]

DatabaseName_from_RootDocumentName(root_document_name) == root_document_name.database_name

DatabaseId_from_DatabaseName(database_name) == database_name.database_id

ProjectId_from_DatabaseName(database_name) == database_name.project_id

\* D: Into<RootDocumentName>: a DatabaseName is converted, a RootDocumentName is kept.
IntoRootDocumentName(d) ==
    IF "database_name" \in DOMAIN d THEN d ELSE RootDocumentName_from_DatabaseName(d)

\* DatabaseName_try_from turning down only strings of fewer than four parts.
DatabaseName_try_from_at_least(s) ==
    IF ~(Len(s) \in 1..NameMaxLen) THEN Err("LengthOutOfBounds")
    ELSE LET parts == split(s)
         IN  IF Len(parts) < 4 THEN Err("InvalidNumberOfPathComponents")
             ELSE IF parts[1] # S_projects \/ parts[3] # S_databases THEN Err("InvalidName")
             ELSE AndThen(ProjectId_try_from(parts[2]), LAMBDA project_id :
                      MapOk(DatabaseId_try_from(parts[4]), LAMBDA database_id :
                          [database_id |-> database_id, project_id |-> project_id]))

\* DatabaseName_try_from reporting a wrong part count as InvalidName.
DatabaseName_try_from_conflated(s) ==
    IF ~(Len(s) \in 1..NameMaxLen) THEN Err("LengthOutOfBounds")
    ELSE LET parts == split(s)
         IN  IF Len(parts) # 4 THEN Err("InvalidName")
             ELSE IF parts[1] # S_projects \/ parts[3] # S_databases THEN Err("InvalidName")
             ELSE AndThen(ProjectId_try_from(parts[2]), LAMBDA project_id :
                      MapOk(DatabaseId_try_from(parts[4]), LAMBDA database_id :
                          [database_id |-> database_id, project_id |-> project_id]))

DatabaseName_try_from(s) ==
    IF ~(Len(s) \in 1..NameMaxLen) THEN Err("LengthOutOfBounds")
    ELSE LET parts == split(s)
         IN  IF Len(parts) # 4 THEN Err("InvalidNumberOfPathComponents")
             ELSE IF parts[1] # S_projects \/ parts[3] # S_databases THEN Err("InvalidName")
             ELSE AndThen(ProjectId_try_from(parts[2]), LAMBDA project_id :
                      MapOk(DatabaseId_try_from(parts[4]), LAMBDA database_id :
                          [database_id |-> database_id, project_id |-> project_id]))

DatabaseName_fmt(self) ==
    S_projects \o <<"/">> \o ProjectId_fmt(self.project_id) \o <<"/">>
        \o S_databases \o <<"/">> \o DatabaseId_fmt(self.database_id)

RootDocumentName_try_from(s) ==
    IF ~(Len(s) \in 1..NameMaxLen) THEN Err("LengthOutOfBounds")
    ELSE LET parts == split(s)
         IN  IF Len(parts) # 5 THEN Err("InvalidNumberOfPathComponents")
             ELSE IF parts[1] # S_projects \/ parts[3] # S_databases
                     \/ parts[5] # S_documents
                 THEN Err("InvalidName")
             ELSE AndThen(ProjectId_try_from(parts[2]), LAMBDA project_id :
                      MapOk(DatabaseId_try_from(parts[4]), LAMBDA database_id :
                          RootDocumentName_new(DatabaseName_new(project_id, database_id))))

\* RootDocumentName formatted as the bare database name, without "/documents".
RootDocumentName_fmt_bare(self) == DatabaseName_fmt(self.database_name)

RootDocumentName_fmt(self) == DatabaseName_fmt(self.database_name) \o <<"/">> \o S_documents

DatabaseName_into_root_document_name(self) == RootDocumentName_new(self)

DatabaseName_root_document_name(self) == DatabaseName_into_root_document_name(self)

(***************************************************************************)
(* CollectionName and DocumentName                                         *)
(*   CollectionName: [collection_path, root_document_name]                 *)
(*   DocumentName:   [document_path, root_document_name]                   *)
(***************************************************************************)
QualifiedNameMaxLen == 6144
RootParts == 5

CollectionName_new(root_document_name, collection_path) ==
    [collection_path |-> collection_path,
     root_document_name |-> IntoRootDocumentName(root_document_name)]

DocumentName_new(root_document_name, document_path) ==
    [document_path |-> document_path,
     root_document_name |-> IntoRootDocumentName(root_document_name)]

\* CollectionName_try_from without the test parts.len() < 5 + 1 before the subtraction.
CollectionName_try_from_unguarded(s) ==
    IF ~(Len(s) \in 1..QualifiedNameMaxLen) THEN Err("LengthOutOfBounds")
    ELSE LET parts == split(s)
         IN  IF usize_sub(Len(parts), RootParts) = None
                 THEN Panic("attempt to subtract with overflow")
             ELSE IF usize_sub(Len(parts), RootParts)[1] % 2 = 0
                 THEN Err("InvalidNumberOfPathComponents")
             ELSE IF ~in_range(parts, RootParts) THEN Panic("range out of bounds")
             ELSE AndThen(CollectionPath_try_from(join(SubSeq(parts, RootParts + 1, Len(parts)))),
                      LAMBDA collection_path :
                          MapOk(RootDocumentName_try_from(join(SubSeq(parts, 1, RootParts))),
                                LAMBDA root_document_name :
                                    [collection_path |-> collection_path,
                                     root_document_name |-> root_document_name]))

\* CollectionName_try_from with the parity test of DocumentName.
CollectionName_try_from_even(s) ==
    IF ~(Len(s) \in 1..QualifiedNameMaxLen) THEN Err("LengthOutOfBounds")
    ELSE LET parts == split(s)
         IN  IF Len(parts) < RootParts + 1 \/ (Len(parts) - RootParts) % 2 # 0
             THEN Err("InvalidNumberOfPathComponents")
             ELSE AndThen(CollectionPath_try_from(join(SubSeq(parts, RootParts + 1, Len(parts)))),
                      LAMBDA collection_path :
                          MapOk(RootDocumentName_try_from(join(SubSeq(parts, 1, RootParts))),
                                LAMBDA root_document_name :
                                    [collection_path |-> collection_path,
                                     root_document_name |-> root_document_name]))

CollectionName_try_from(s) ==
    IF ~(Len(s) \in 1..QualifiedNameMaxLen) THEN Err("LengthOutOfBounds")
    ELSE LET parts == split(s)
         IN  IF Len(parts) < RootParts + 1 THEN Err("InvalidNumberOfPathComponents")
             ELSE IF usize_sub(Len(parts), RootParts) = None
                 THEN Panic("attempt to subtract with overflow")
             ELSE IF usize_sub(Len(parts), RootParts)[1] % 2 = 0
                 THEN Err("InvalidNumberOfPathComponents")
             ELSE IF ~in_range(parts, RootParts) THEN Panic("range out of bounds")
             ELSE AndThen(CollectionPath_try_from(join(SubSeq(parts, RootParts + 1, Len(parts)))),
                      LAMBDA collection_path :
                          MapOk(RootDocumentName_try_from(join(SubSeq(parts, 1, RootParts))),
                                LAMBDA root_document_name :
                                    [collection_path |-> collection_path,
                                     root_document_name |-> root_document_name]))

CollectionName_fmt(self) ==
    RootDocumentName_fmt(self.root_document_name) \o <<"/">>
        \o CollectionPath_fmt(self.collection_path)

\* DocumentName_try_from that takes the four parts of a DatabaseName for the root
\* and everything after them for the path.
DocumentName_try_from_database_root(s) ==
    IF ~(Len(s) \in 1..QualifiedNameMaxLen) THEN Err("LengthOutOfBounds")
    ELSE LET parts == split(s)
         IN  IF Len(parts) < 4 + 2 \/ (Len(parts) - 4) % 2 # 0
             THEN Err("InvalidNumberOfPathComponents")
             ELSE AndThen(DatabaseName_try_from(join(SubSeq(parts, 1, 4))),
                      LAMBDA database_name :
                          MapOk(DocumentPath_try_from(join(SubSeq(parts, 4 + 1, Len(parts)))),
                                LAMBDA document_path :
                                    [document_path |-> document_path,
                                     root_document_name |->
                                         RootDocumentName_from_DatabaseName(database_name)]))

\* DocumentName_try_from with the length range written half-open, (1..6_144).
DocumentName_try_from_half_open(s) ==
    IF ~(Len(s) \in 1..(QualifiedNameMaxLen - 1)) THEN Err("LengthOutOfBounds")
    ELSE LET parts == split(s)
         IN  IF Len(parts) < RootParts + 2 \/ (Len(parts) - RootParts) % 2 # 0
             THEN Err("InvalidNumberOfPathComponents")
             ELSE AndThen(RootDocumentName_try_from(join(SubSeq(parts, 1, RootParts))),
                      LAMBDA root_document_name :
                          MapOk(DocumentPath_try_from(join(SubSeq(parts, RootParts + 1, Len(parts)))),
                                LAMBDA document_path :
                                    [document_path |-> document_path,
                                     root_document_name |-> root_document_name]))

DocumentName_try_from(s) ==
    IF ~(Len(s) \in 1..QualifiedNameMaxLen) THEN Err("LengthOutOfBounds")
    ELSE LET parts == split(s)
         IN  IF Len(parts) < RootParts + 2 THEN Err("InvalidNumberOfPathComponents")
             ELSE IF usize_sub(Len(parts), RootParts) = None
                 THEN Panic("attempt to subtract with overflow")
             ELSE IF usize_sub(Len(parts), RootParts)[1] % 2 # 0
                 THEN Err("InvalidNumberOfPathComponents")
             ELSE IF ~in_range(parts, RootParts) THEN Panic("range out of bounds")
             ELSE AndThen(RootDocumentName_try_from(join(SubSeq(parts, 1, RootParts))),
                      LAMBDA root_document_name :
                          MapOk(DocumentPath_try_from(join(SubSeq(parts, RootParts + 1, Len(parts)))),
                                LAMBDA document_path :
                                    [document_path |-> document_path,
                                     root_document_name |-> root_document_name]))

DocumentName_fmt(self) ==
    RootDocumentName_fmt(self.root_document_name) \o <<"/">>
        \o DocumentPath_fmt(self.document_path)

\* DatabaseName_into_collection reporting a failed argument under the kind of a
\* collection id.
DatabaseName_into_collection_id_kind(self, collection_path) ==
    MapOk(MapErr(TryIntoCollectionPath(collection_path), "CollectionIdConversion"),
          LAMBDA c : CollectionName_new(self, c))

DatabaseName_into_collection(self, collection_path) ==
    MapOk(MapErr(TryIntoCollectionPath(collection_path), "CollectionPathConversion"),
          LAMBDA c : CollectionName_new(self, c))

DatabaseName_collection(self, collection_path) ==
    DatabaseName_into_collection(self, collection_path)

DatabaseName_into_doc(self, document_path) ==
    MapOk(MapErr(TryIntoDocumentPath(document_path), "DocumentPathConversion"),
          LAMBDA d : DocumentName_new(self, d))

DatabaseName_doc(self, document_path) == DatabaseName_into_doc(self, document_path)

\* RootDocumentName_into_collection keeping only the leaf collection of the argument.
RootDocumentName_into_collection_leaf(self, collection_path) ==
    MapOk(MapErr(TryIntoCollectionPath(collection_path), "CollectionPathConversion"),
          LAMBDA c : CollectionName_new(self, CollectionPath_from_CollectionId(c.collection_id)))

RootDocumentName_into_collection(self, collection_path) ==
    MapOk(MapErr(TryIntoCollectionPath(collection_path), "CollectionPathConversion"),
          LAMBDA c : CollectionName_new(self, c))

RootDocumentName_collection(self, collection_path) ==
    RootDocumentName_into_collection(self, collection_path)

RootDocumentName_into_doc(self, document_path) ==
    MapOk(MapErr(TryIntoDocumentPath(document_path), "DocumentPathConversion"),
          LAMBDA d : DocumentName_new(self, d))

RootDocumentName_doc(self, document_path) == RootDocumentName_into_doc(self, document_path)

CollectionName_into_doc(self, document_id) ==
    MapOk(MapErr(TryIntoDocumentId(document_id), "DocumentIdConversion"),
          LAMBDA d : DocumentName_new(self.root_document_name,
                                      DocumentPath_new(self.collection_path, d)))

CollectionName_doc(self, document_id) == CollectionName_into_doc(self, document_id)

CollectionName_collection_id(self) == CollectionPath_collection_id(self.collection_path)

\* CollectionName_into_parent that steps to the document above the enclosing one.
CollectionName_into_parent_grand(self) ==
    IF OptionDocumentPath_from_CollectionPath(self.collection_path) = None THEN None
    ELSE IF DocumentPath_parent(OptionDocumentPath_from_CollectionPath(self.collection_path)[1]).document_path = None
         THEN None
    ELSE Some(DocumentName_new(
             DatabaseName_from_RootDocumentName(self.root_document_name),
             DocumentPath_parent(OptionDocumentPath_from_CollectionPath(self.collection_path)[1]).document_path[1]))

CollectionName_into_parent(self) ==
    IF OptionDocumentPath_from_CollectionPath(self.collection_path) = None THEN None
    ELSE Some(DocumentName_new(
             DatabaseName_from_RootDocumentName(self.root_document_name),
             OptionDocumentPath_from_CollectionPath(self.collection_path)[1]))

CollectionName_parent(self) == CollectionName_into_parent(self)

CollectionName_into_root_document_name(self) == self.root_document_name

CollectionId_from_CollectionName(collection_name) ==
    CollectionId_from_CollectionPath(collection_name.collection_path)

DatabaseName_from_CollectionName(collection_name) ==
    DatabaseName_from_RootDocumentName(collection_name.root_document_name)

DocumentName_into_collection(self, collection_path) ==
    MapOk(DocumentPath_into_collection(self.document_path, collection_path),
          LAMBDA c : CollectionName_new(self.root_document_name, c))

DocumentName_collection(self, collection_path) ==
    DocumentName_into_collection(self, collection_path)

DocumentName_into_doc(self, document_path) ==
    MapOk(DocumentPath_into_doc(self.document_path, document_path),
          LAMBDA d : DocumentName_new(self.root_document_name, d))

DocumentName_doc(self, document_path) == DocumentName_into_doc(self, document_path)

DocumentName_into_parent_document_name(self) ==
    IF CollectionPath_into_parent(DocumentPath_into_parent(self.document_path)) = None THEN None
    ELSE Some(DocumentName_new(
             self.root_document_name,
             CollectionPath_into_parent(DocumentPath_into_parent(self.document_path))[1]))

DocumentName_parent_document_name(self) == DocumentName_into_parent_document_name(self)

DocumentName_document_id(self) == DocumentPath_document_id(self.document_path)

\* DocumentName_into_parent that keeps only the leaf collection id.
DocumentName_into_parent_leaf(self) ==
    CollectionName_new(self.root_document_name,
                       CollectionPath_from_CollectionId(
                           CollectionPath_from_DocumentPath(self.document_path).collection_id))

DocumentName_into_parent(self) ==
    CollectionName_new(self.root_document_name,
                       CollectionPath_from_DocumentPath(self.document_path))

DocumentName_parent(self) == DocumentName_into_parent(self)

DatabaseName_from_DocumentName(document_name) ==
    DatabaseName_from_RootDocumentName(document_name.root_document_name)

(***************************************************************************)
(* Parser inputs.  The strings handed to the parsers: every short string   *)
(* over a small alphabet, strings at the length limits of each identifier, *)
(* and '/'-joined names with right and wrong segments.                     *)
(***************************************************************************)
MaxShort == 5       \* every string over ShortAlphabet up to this length
MaxPathLen == 7     \* every string over {"x", "/"} up to this length
MaxSegs == 4        \* segments appended to a well-formed root
MaxTail == 2        \* segments appended to the four leading segments

Nil == <<>>

ShortAlphabet == {"x", "/", ".", "_"}

StringsOver(A, n) == UNION {[1..k -> A] : k \in 0..n}

S_my_project == <<"m", "y", "-", "p", "r", "o", "j", "e", "c", "t">>
S_my_database == <<"m", "y", "-", "d", "a", "t", "a", "b", "a", "s", "e">>
S_default1 == <<"(", "d", "e", "f", "a", "u", "l", "t", "1", ")">>
S_chatrooms == <<"c", "h", "a", "t", "r", "o", "o", "m", "s">>
S_chatroom1 == <<"c", "h", "a", "t", "r", "o", "o", "m", "1">>
S_messages == <<"m", "e", "s", "s", "a", "g", "e", "s">>
S_message1 == <<"m", "e", "s", "s", "a", "g", "e", "1">>
S_col == <<"c", "o", "l">>

\* Identifiers at the limits of CollectionId and DocumentId.
LongIdInputs ==
    {Rep("x", n) : n \in {CollectionIdMaxLen - 1, CollectionIdMaxLen, CollectionIdMaxLen + 1}}
    \cup {Rep("x", CollectionIdMaxLen - 1) \o <<"/">>,
          Rep("x", CollectionIdMaxLen) \o <<"/">>,
          <<"_", "_">> \o Rep("x", CollectionIdMaxLen - 4) \o <<"_", "_">>,
          <<"_", "_">> \o Rep("x", CollectionIdMaxLen - 3) \o <<"_", "_">>}

\* first character, a run of 'x', an optional word, last character: the
\* lengths reach both limits of ProjectId and of DatabaseId.
EdgeChars == {"x", "0", "-", "A"}
Words == {<<>>, S_google, S_null, S_undefined, S_ssl, <<"n", "u", "l">>, <<"s", "l">>}
RunLengths == {0, 1, 2, 3, 4, 5, 21, 22, 27, 28, 29, 60, 61, 62}

ProjectLikeInputs ==
    {<<f>> \o Rep("x", n) \o w \o <<l>> :
        f \in EdgeChars, n \in RunLengths, w \in Words, l \in EdgeChars}
    \cup {S_my_project, S_my_database, S_default, S_default1,
          SubSeq(S_default, 1, 8), SubSeq(S_default, 2, 9)}

\* '/'-joined names: four leading segments, right or wrong, then a short tail.
Heads ==
    {<<a, p, b, d>> : a \in {S_projects, <<"p">>}, p \in {S_my_project, <<"p">>},
                      b \in {S_databases, S_documents},
                      d \in {S_my_database, S_default, <<"d">>}}
TailTokens == {S_documents, <<"c">>, <<"d">>, <<>>}
Tails(A, n) == UNION {[1..k -> A] : k \in 0..n}

NameInputs ==
    {join(h \o t) : h \in Heads, t \in Tails(TailTokens, MaxTail)}
    \cup {join(SubSeq(h, 1, k)) : h \in Heads, k \in 0..3}
    \cup {join(<<S_projects, S_my_project, S_databases, d, S_documents>> \o t) :
            d \in {S_my_database, S_default}, t \in Tails({<<"c">>, <<"d">>, <<>>}, MaxSegs)}

\* The strings of the crate's own length tests: 6144 and 6145 bytes, with five
\* segments (a collection) and with six (a document).
LongNameInputs ==
    {join(<<S_projects, S_my_project, S_databases, S_my_database, S_documents,
            Rep("x", 1500), Rep("x", 1500), Rep("y", 1500), Rep("y", 1500), Rep("z", n)>>) :
        n \in {88, 89}}
    \cup {join(<<S_projects, S_my_project, S_databases, S_my_database, S_documents,
                 Rep("x", 1500), Rep("x", 1500), Rep("y", 1500), Rep("y", 1500),
                 Rep("z", 80), Rep("z", n)>>) :
             n \in {7, 8}}

Inputs ==
    StringsOver(ShortAlphabet, MaxShort) \cup StringsOver({"x", "/"}, MaxPathLen)
    \cup LongIdInputs \cup ProjectLikeInputs \cup NameInputs \cup LongNameInputs

(***************************************************************************)
(* Parsing.  Each action hands the input to one type's parser and, as the  *)
(* crate's round-trip tests do, formats an accepted value and parses the   *)
(* formatted string once more.                                             *)
(***************************************************************************)
Init ==
    /\ op = "init"
    /\ input \in Inputs
    /\ result = Nil
    /\ text = Nil
    /\ again = Nil
    /\ recv = Nil
    /\ arg = Nil
    /\ live = EmptyBag
    /\ frame = Nil
    /\ steps = 0

\* let v = T::from_str(input)?; let t = v.to_string(); T::from_str(&t)
RoundTrip(type, r, fmt(_), try_from(_)) ==
    /\ op' = type
    /\ result' = r
    /\ text' = IF r.ok THEN fmt(r.val) ELSE Nil
    /\ again' = IF r.ok THEN try_from(fmt(r.val)) ELSE Nil
    /\ UNCHANGED <<input, recv, arg, live, frame, steps>>

ParseProjectId ==
    /\ op = "init"
    /\ RoundTrip("ProjectId", ProjectId_try_from(input),
                 LAMBDA v : ProjectId_fmt(v), LAMBDA t : ProjectId_try_from(t))

ParseDatabaseId ==
    /\ op = "init"
    /\ RoundTrip("DatabaseId", DatabaseId_try_from(input),
                 LAMBDA v : DatabaseId_fmt(v), LAMBDA t : DatabaseId_try_from(t))

ParseCollectionId ==
    /\ op = "init"
    /\ RoundTrip("CollectionId", CollectionId_try_from(input),
                 LAMBDA v : CollectionId_fmt(v), LAMBDA t : CollectionId_try_from(t))

ParseDocumentId ==
    /\ op = "init"
    /\ RoundTrip("DocumentId", DocumentId_try_from(input),
                 LAMBDA v : DocumentId_fmt(v), LAMBDA t : DocumentId_try_from(t))

ParseCollectionPath ==
    /\ op = "init"
    /\ RoundTrip("CollectionPath", CollectionPath_try_from(input),
                 LAMBDA v : CollectionPath_fmt(v), LAMBDA t : CollectionPath_try_from(t))

ParseDocumentPath ==
    /\ op = "init"
    /\ RoundTrip("DocumentPath", DocumentPath_try_from(input),
                 LAMBDA v : DocumentPath_fmt(v), LAMBDA t : DocumentPath_try_from(t))

ParseDatabaseName ==
    /\ op = "init"
    /\ RoundTrip("DatabaseName", DatabaseName_try_from(input),
                 LAMBDA v : DatabaseName_fmt(v), LAMBDA t : DatabaseName_try_from(t))

ParseRootDocumentName ==
    /\ op = "init"
    /\ RoundTrip("RootDocumentName", RootDocumentName_try_from(input),
                 LAMBDA v : RootDocumentName_fmt(v), LAMBDA t : RootDocumentName_try_from(t))

ParseCollectionName ==
    /\ op = "init"
    /\ RoundTrip("CollectionName", CollectionName_try_from(input),
                 LAMBDA v : CollectionName_fmt(v), LAMBDA t : CollectionName_try_from(t))

ParseDocumentName ==
    /\ op = "init"
    /\ RoundTrip("DocumentName", DocumentName_try_from(input),
                 LAMBDA v : DocumentName_fmt(v), LAMBDA t : DocumentName_try_from(t))

\* DatabaseName::from_project_id(a)?.to_string(), and the string parsed again
FromProjectId(a, r) ==
    /\ op' = "DatabaseName_from_project_id"
    /\ arg' = a
    /\ result' = r
    /\ text' = IF r.ok THEN DatabaseName_fmt(r.val) ELSE Nil
    /\ again' = IF r.ok THEN DatabaseName_try_from(DatabaseName_fmt(r.val)) ELSE Nil
    /\ UNCHANGED <<input, recv, live, frame, steps>>

\* the input given as a string, or as the ProjectId it parses to
Call_DatabaseName_from_project_id ==
    /\ op = "init"
    /\ \E a \in {StrArg(input)}
                \cup {IdArg(r.val) : r \in {x \in {ProjectId_try_from(input)} : x.ok}} :
           FromProjectId(a, DatabaseName_from_project_id(a))

Next ==
    \/ ParseProjectId
    \/ ParseDatabaseId
    \/ ParseCollectionId
    \/ ParseDocumentId
    \/ ParseCollectionPath
    \/ ParseDocumentPath
    \/ ParseDatabaseName
    \/ ParseRootDocumentName
    \/ ParseCollectionName
    \/ ParseDocumentName
    \/ Call_DatabaseName_from_project_id

Spec == Init /\ [][Next]_vars

(***************************************************************************)
(* The rules of the specification, stated on the input string alone.       *)
(***************************************************************************)
HasSlash(s) == \E i \in 1..Len(s) : s[i] = "/"

SlashCount(s) == Cardinality({i \in 1..Len(s) : s[i] = "/"})

\* w occurs in s at some offset
Occurs(w, s) == \E k \in 0..(Len(s) - Len(w)) : \A j \in 1..Len(w) : s[k + j] = w[j]

ReservedShape(s) ==
    /\ Len(s) >= 2
    /\ s[1] = "_" /\ s[2] = "_"
    /\ s[Len(s) - 1] = "_" /\ s[Len(s)] = "_"

ValidIdString(s) ==
    /\ Len(s) >= 1 /\ Len(s) <= 1500
    /\ ~HasSlash(s)
    /\ s # <<".">> /\ s # <<".", ".">>
    /\ ~ReservedShape(s)

LowerDigitHyphen(s) == \A i \in 1..Len(s) : s[i] \in Lower \cup Digit \cup {"-"}

ValidProjectIdString(s) ==
    /\ Len(s) >= 6 /\ Len(s) <= 30
    /\ LowerDigitHyphen(s)
    /\ s[1] \in Lower
    /\ s[Len(s)] # "-"
    /\ \A w \in {S_google, S_null, S_undefined, S_ssl} : ~Occurs(w, s)

ValidDatabaseIdString(s) ==
    \/ s = S_default
    \/ /\ Len(s) >= 4 /\ Len(s) <= 63
       /\ LowerDigitHyphen(s)
       /\ s[1] \in Lower
       /\ s[Len(s)] # "-"

(***************************************************************************)
(* C7: CollectionId and DocumentId parsing accept a string exactly when    *)
(* its byte length is 1..1500, it has no '/', it is neither "." nor "..",  *)
(* and it does not both start and end with "__"; lengths 1 and 1500 are    *)
(* accepted, 0 and 1501 rejected; "__x__" is rejected, "__x" and "x__"     *)
(* accepted; the two types accept the same strings.                        *)
(***************************************************************************)
\* C7: the acceptance rule of CollectionId and DocumentId.
Thm_C7 ==
    /\ op \in {"CollectionId", "DocumentId"} =>
        /\ result.ok <=> ValidIdString(input)
        /\ result.ok => result.val.inner = input
        /\ input \in {<<"x">>, Rep("x", 1500), <<"_", "_", "x">>, <<"x", "_", "_">>}
              => result.ok
        /\ input \in {<<>>, Rep("x", 1501), <<"_", "_", "x", "_", "_">>} => ~result.ok
    /\ CollectionId_try_from(input).ok <=> DocumentId_try_from(input).ok

Wit_C7 ==
    /\ op = "CollectionId"
    /\ Len(input) = 1500
    /\ result.ok

(***************************************************************************)
(* C8: ProjectId parsing accepts a string exactly when it is 6..30 bytes   *)
(* of lowercase letters, digits and '-', starts with a lowercase letter,   *)
(* does not end with '-' and contains none of "google", "null",            *)
(* "undefined", "ssl"; lengths 6 and 30 are accepted, 5 and 31 rejected.   *)
(***************************************************************************)
\* C8: the acceptance rule of ProjectId.
Thm_C8 ==
    op = "ProjectId" =>
        /\ result.ok <=> ValidProjectIdString(input)
        /\ input \in {Rep("x", 6), Rep("x", 30)} => result.ok
        /\ input \in {Rep("x", 5), Rep("x", 31)} => ~result.ok

Wit_C8 ==
    /\ op = "ProjectId"
    /\ Len(input) = 30
    /\ result.ok

(***************************************************************************)
(* C9: DatabaseId parsing accepts "(default)" whatever the other rules     *)
(* say, and any other string exactly when it is 4..63 bytes of lowercase   *)
(* letters, digits and '-', starts with a lowercase letter and does not    *)
(* end with '-'; lengths 4 and 63 are accepted, 3 and 64 rejected, and     *)
(* near-misses of the literal such as "(default1)" are rejected.           *)
(***************************************************************************)
\* C9: the acceptance rule of DatabaseId, "(default)" included.
Thm_C9 ==
    op = "DatabaseId" =>
        /\ result.ok <=> ValidDatabaseIdString(input)
        /\ input \in {S_default, Rep("x", 4), Rep("x", 63)} => result.ok
        /\ input \in {Rep("x", 3), Rep("x", 64), S_default1,
                      SubSeq(S_default, 1, 8), SubSeq(S_default, 2, 9)} => ~result.ok

Wit_C9 ==
    /\ op = "DatabaseId"
    /\ input = S_default
    /\ result.ok
    /\ ~LowerDigitHyphen(input)

\* r is an error of the given kind
ErrIs(r, kind) == ~r.ok /\ "err" \in DOMAIN r /\ r.err = kind

PartCount(s) == SlashCount(s) + 1

\* the position of the last '/' of a string that has one
LastSlash(s) == CHOOSE i \in 1..Len(s) : s[i] = "/" /\ \A j \in (i + 1)..Len(s) : s[j] # "/"
BeforeLast(s) == SubSeq(s, 1, LastSlash(s) - 1)
AfterLast(s) == SubSeq(s, LastSlash(s) + 1, Len(s))

AllSegmentsValid(s) == \A k \in 1..Len(split(s)) : ValidIdString(split(s)[k])

(***************************************************************************)
(* C6: relative-path parsing splits on the last '/'.  Without '/', the     *)
(* string is a parentless CollectionPath whose id is the whole string (if  *)
(* a valid CollectionId) and fails as a DocumentPath with                  *)
(* NotContainsSlash.  With '/', the part after the last '/' is validated   *)
(* as the type's own identifier and the part before it is parsed as the    *)
(* opposite path type.  So CollectionPath accepts exactly the strings of   *)
(* an odd number of valid segments, DocumentPath those of an even number.  *)
(***************************************************************************)
\* C6: relative paths are cut at the last '/'; odd segment counts are collections, even ones documents.
Thm_C6 ==
    /\ op = "CollectionPath" =>
        /\ ~HasSlash(input) =>
            /\ result.ok <=> ValidIdString(input)
            /\ result.ok =>
                result.val = [document_path |-> None, collection_id |-> CollectionId(input)]
        /\ HasSlash(input) =>
            /\ result.ok <=>
                (DocumentPath_try_from(BeforeLast(input)).ok /\ ValidIdString(AfterLast(input)))
            /\ result.ok =>
                /\ result.val.collection_id = CollectionId(AfterLast(input))
                /\ result.val.document_path = Some(DocumentPath_try_from(BeforeLast(input)).val)
        /\ result.ok <=> (PartCount(input) % 2 = 1 /\ AllSegmentsValid(input))
    /\ op = "DocumentPath" =>
        /\ ~HasSlash(input) => ErrIs(result, "NotContainsSlash")
        /\ HasSlash(input) =>
            /\ result.ok <=>
                (CollectionPath_try_from(BeforeLast(input)).ok /\ ValidIdString(AfterLast(input)))
            /\ result.ok =>
                /\ result.val.document_id = DocumentId(AfterLast(input))
                /\ result.val.collection_path = CollectionPath_try_from(BeforeLast(input)).val
        /\ result.ok <=>
            (PartCount(input) % 2 = 0 /\ PartCount(input) >= 2 /\ AllSegmentsValid(input))

Wit_C6 ==
    /\ op = "DocumentPath"
    /\ PartCount(input) = 4
    /\ result.ok
    /\ result.val.collection_path.document_path # None

(***************************************************************************)
(* C10: for DatabaseName and RootDocumentName parsing, a wrong number of   *)
(* '/'-separated parts (not 4, not 5) fails with                           *)
(* InvalidNumberOfPathComponents and the right number with a wrong fixed   *)
(* segment fails with InvalidName; neither kind is reported for the other; *)
(* the checks run in the order length, part count, fixed segments, project *)
(* id, database id.                                                        *)
(***************************************************************************)
FixedSegmentsOk(s, n) ==
    /\ split(s)[1] = S_projects
    /\ split(s)[3] = S_databases
    /\ n = 5 => split(s)[5] = S_documents

NameErrorOrder(n) ==
    LET lenOk == Len(input) >= 1 /\ Len(input) <= 6144
        countOk == PartCount(input) = n
    IN  /\ ~lenOk => ErrIs(result, "LengthOutOfBounds")
        /\ lenOk /\ ~countOk => ErrIs(result, "InvalidNumberOfPathComponents")
        /\ lenOk /\ countOk /\ ~FixedSegmentsOk(input, n) => ErrIs(result, "InvalidName")
        /\ ErrIs(result, "InvalidNumberOfPathComponents") => lenOk /\ ~countOk
        /\ ErrIs(result, "InvalidName") => lenOk /\ countOk /\ ~FixedSegmentsOk(input, n)
        /\ lenOk /\ countOk /\ FixedSegmentsOk(input, n) =>
            LET p == split(input)[2]
                d == split(input)[4]
            IN  /\ ~ValidProjectIdString(p) => result = ProjectId_try_from(p)
                /\ ValidProjectIdString(p) /\ ~ValidDatabaseIdString(d)
                      => result = DatabaseId_try_from(d)
                /\ ValidProjectIdString(p) /\ ValidDatabaseIdString(d) => result.ok

\* C10: the error kinds of DatabaseName and RootDocumentName parsing and their order.
Thm_C10 ==
    /\ op = "DatabaseName" => NameErrorOrder(4)
    /\ op = "RootDocumentName" => NameErrorOrder(5)

Wit_C10 ==
    /\ op = "RootDocumentName"
    /\ PartCount(input) = 5
    /\ split(input)[1] # S_projects
    /\ ~ValidProjectIdString(split(input)[2])
    /\ ErrIs(result, "InvalidName")

(***************************************************************************)
(* C4: for a non-empty string of at most 6144 bytes, CollectionName        *)
(* parsing fails with InvalidNumberOfPathComponents unless the string has  *)
(* at least 6 '/'-separated parts and an odd number after the first 5;     *)
(* DocumentName parsing fails with it unless there are at least 7 parts    *)
(* and an even number after the first 5.  For a valid root R, R+"/c" is    *)
(* accepted as a CollectionName and rejected as a DocumentName; R+"/c/d"   *)
(* is accepted as a DocumentName and rejected as a CollectionName.         *)
(***************************************************************************)
CollectionPartsOk(s) == PartCount(s) >= 6 /\ (PartCount(s) - 5) % 2 = 1
DocumentPartsOk(s) == PartCount(s) >= 7 /\ (PartCount(s) - 5) % 2 = 0

\* s is R followed by tail, for a string R that RootDocumentName parsing accepts
RootPlus(s, tail) ==
    /\ ends_with(s, tail)
    /\ RootDocumentName_try_from(SubSeq(s, 1, Len(s) - Len(tail))).ok

PartCountRule(lengths) ==
    /\ op = "CollectionName" /\ Len(input) \in lengths =>
        (ErrIs(result, "InvalidNumberOfPathComponents") <=> ~CollectionPartsOk(input))
    /\ op = "DocumentName" /\ Len(input) \in lengths =>
        (ErrIs(result, "InvalidNumberOfPathComponents") <=> ~DocumentPartsOk(input))

\* C4: the part-count rule of CollectionName and DocumentName, for non-empty strings.
Thm_C4 ==
    /\ PartCountRule(1..6144)
    /\ RootPlus(input, <<"/", "c">>) =>
        /\ op = "CollectionName" => result.ok
        /\ op = "DocumentName" => ErrIs(result, "InvalidNumberOfPathComponents")
    /\ RootPlus(input, <<"/", "c", "/", "d">>) =>
        /\ op = "DocumentName" => result.ok
        /\ op = "CollectionName" => ErrIs(result, "InvalidNumberOfPathComponents")

\* C4 as first stated: for every string no longer than 6144 bytes.
Orig_C4 == PartCountRule(0..6144)

Wit_C4 ==
    /\ op = "DocumentName"
    /\ RootPlus(input, <<"/", "c">>)
    /\ ErrIs(result, "InvalidNumberOfPathComponents")

(***************************************************************************)
(* C1: for each of the ten types and every string s its parser accepts,    *)
(* formatting the parsed value returns exactly s, and parsing that         *)
(* formatted string returns a value equal to the first parse.              *)
(***************************************************************************)
Types ==
    {"ProjectId", "DatabaseId", "CollectionId", "DocumentId", "CollectionPath",
     "DocumentPath", "DatabaseName", "RootDocumentName", "CollectionName", "DocumentName"}

\* C1: an accepted string is formatted back unchanged and parses again to an equal value.
Thm_C1 ==
    op \in Types /\ result.ok =>
        /\ text = input
        /\ again.ok
        /\ again.val = result.val

Wit_C1 ==
    /\ op = "DocumentName"
    /\ result.ok
    /\ PartCount(input) = 9
    /\ text = input
    /\ again = result

(***************************************************************************)
(* Navigation.  The program owns values (live, a bag: a clone is a second  *)
(* copy), calls one operation on one of them and comes to own what the     *)
(* call returns by value.  An operation that takes self by value moves its *)
(* receiver out of the program's hands, one that takes &self leaves it     *)
(* owned, and a call that returns a reference hands over nothing to own:   *)
(* the value behind the reference is owned only once it is cloned.  The    *)
(* other values the program holds are left alone by a call.                *)
(*                                                                         *)
(* A method that takes &self can also be called on a lent reference.  A    *)
(* parameter taken by value is handed a value made for the call or a value *)
(* the program owns, of any type that converts to the wanted one, which is *)
(* then moved.  The program lets go of a value with Drop.  The walks are   *)
(* bounded: MaxSteps steps, MaxHeld values held at once, paths of MaxDepth *)
(* segments.                                                               *)
(***************************************************************************)
MaxDepth == 5       \* segments of the longest relative path built
MaxArgSegs == 3     \* segments of the longest path handed over as an argument
MaxHeld == 2        \* values the program holds at once, clones counted
MaxSteps == 3       \* calls, clones and drops the program makes one after another

Typed(type, v) == [type |-> type, val |-> v]

\* an identifier of the greatest length CollectionId and DocumentId accept
LongId == Rep("x", CollectionIdMaxLen)

StartDatabaseNames ==
    {DatabaseName_new(ProjectId_try_from(S_my_project).val,
                      DatabaseId_try_from(S_my_database).val)}

StartValues ==
    {Typed("DatabaseName", d) : d \in StartDatabaseNames}
    \cup {Typed("CollectionPath", CollectionPath_from_CollectionId(CollectionId_try_from(S_col).val))}

\* Arguments: strings (valid or not), identifiers and structured paths.
ShortSegs == <<S_chatrooms, S_chatroom1, S_messages, S_message1>>

\* the relative path of n segments chatrooms/chatroom1/messages/message1/...
ShortPath(n) == join([k \in 1..n |-> ShortSegs[((k - 1) % 4) + 1]])

CollectionPathStrings == {ShortPath(n) : n \in {k \in 1..MaxArgSegs : k % 2 = 1}}
DocumentPathStrings == {ShortPath(n) : n \in {k \in 1..MaxArgSegs : k % 2 = 0}}

\* a relative collection path of as many greatest-length identifiers as MaxDepth allows
LongCollectionPath == join([k \in 1..(MaxDepth - ((MaxDepth + 1) % 2)) |-> LongId])

BadStrings == {<<>>, <<"_", "_", "x", "_", "_">>, <<"x", "/">>}

\* a document path and a collection path of greatest-length identifiers that
\* fit under one another within MaxDepth
LongDocumentPath == join(<<LongId, LongId>>)
LongSubcollectionPath == join([k \in 1..(MaxDepth - 2 - ((MaxDepth + 1) % 2)) |-> LongId])

\* structured values of another type than the wanted one, written at a call
GivenDocumentPaths ==
    {Typed("DocumentPath", DocumentPath_try_from(s).val) : s \in DocumentPathStrings}
GivenCollectionNames ==
    {Typed("CollectionName", CollectionName_new(d, CollectionPath_try_from(S_messages).val)) :
        d \in StartDatabaseNames}
GivenDocumentNames ==
    {Typed("DocumentName", DocumentName_new(d, x.val)) :
        d \in StartDatabaseNames, x \in GivenDocumentPaths}

CollectionArgs ==
    {StrArg(s) : s \in CollectionPathStrings \cup DocumentPathStrings \cup BadStrings
                        \cup {LongCollectionPath, LongSubcollectionPath}}
    \cup {IdArg(CollectionId_try_from(s).val) : s \in {S_messages, S_col}}
    \cup {PathArg(CollectionPath_try_from(s).val) : s \in CollectionPathStrings}
    \cup {PathArg(x.val) : x \in GivenDocumentPaths}
    \cup {NameArg(x.val) : x \in GivenCollectionNames}

\* the document path of the crate's parent test
ExamplePath == join(ShortSegs)

DocumentPathArgs ==
    {StrArg(s) : s \in DocumentPathStrings \cup {ExamplePath, S_chatrooms, LongDocumentPath}
                        \cup BadStrings}
    \cup {PathArg(DocumentPath_try_from(s).val) : s \in DocumentPathStrings}
    \cup {NameArg(x.val) : x \in GivenDocumentNames}

DocumentIdArgs ==
    {StrArg(s) : s \in {S_chatroom1} \cup DocumentPathStrings \cup BadStrings}
    \cup {IdArg(DocumentId_try_from(s).val) : s \in {S_message1, S_chatroom1}}
    \cup {PathArg(x.val) : x \in GivenDocumentPaths}
    \cup {NameArg(x.val) : x \in GivenDocumentNames}

\* the number of identifiers of a relative path
RECURSIVE CollectionPathSegments(_), DocumentPathSegments(_)
CollectionPathSegments(c) ==
    IF c.document_path = None THEN 1 ELSE 1 + DocumentPathSegments(c.document_path[1])
DocumentPathSegments(d) == 1 + CollectionPathSegments(d.collection_path)

Segments(x) ==
    CASE x.type = "CollectionPath" -> CollectionPathSegments(x.val)
      [] x.type = "DocumentPath" -> DocumentPathSegments(x.val)
      [] x.type = "CollectionName" -> CollectionPathSegments(x.val.collection_path)
      [] x.type = "DocumentName" -> DocumentPathSegments(x.val.document_path)
      [] OTHER -> 0

ArgSegments(a) ==
    IF "str" \in DOMAIN a THEN Cardinality({i \in 1..Len(a.str) : a.str[i] = "/"}) + 1
    ELSE IF "id" \in DOMAIN a THEN 1
    ELSE IF IsDocumentPathArg(a) THEN DocumentPathSegments(a.path)
    ELSE IF "path" \in DOMAIN a THEN CollectionPathSegments(a.path)
    ELSE IF IsDocumentNameArg(a) THEN DocumentPathSegments(a.name.document_path)
    ELSE CollectionPathSegments(a.name.collection_path)

\* the values the program owns, without their number of copies
Held == BagToSet(live)

Holding(types) == {x \in Held : x.type \in types}

One(x) == SetToBag({x})

\* what a call hands over to its caller to own: the value of an Ok or of a Some,
\* or the value itself; nothing when it returns a reference ("Ref", "OptionRef")
Returned(type, r, shape) ==
    CASE shape = "Result" -> IF r.ok THEN One(Typed(type, r.val)) ELSE EmptyBag
      [] shape = "Option" -> IF r = None THEN EmptyBag ELSE One(Typed(type, r[1]))
      [] shape \in {"Ref", "OptionRef"} -> EmptyBag
      [] OTHER -> One(Typed(type, r))

\* the operations that return a reference into their receiver, with the type lent
RefOps == {"CollectionPath_parent", "DocumentPath_parent"}

\* the value behind the reference the last call returned
Lent ==
    IF op = "CollectionPath_parent" /\ result # None
        THEN {Typed("DocumentPath", result[1])}
    ELSE IF op = "DocumentPath_parent" THEN {Typed("CollectionPath", result)}
    ELSE {}

\* the values lent by the last call that are of one of the types
Borrowed(types) == {x \in Lent : x.type \in types}

\* the program has a step left to make
CanStep == steps < MaxSteps

\* one more step of the program, which leaves the parsers' variables alone
Step ==
    /\ steps' = steps + 1
    /\ UNCHANGED <<input, text, again, frame>>

\* a value as the argument of a call: an identifier, a structured path or a name
ArgOf(x) ==
    IF x.type \in {"CollectionId", "DocumentId", "ProjectId", "DatabaseId"} THEN IdArg(x.val)
    ELSE IF x.type \in {"CollectionPath", "DocumentPath"} THEN PathArg(x.val)
    ELSE NameArg(x.val)

\* what is handed to a parameter that takes a value: an argument made for the
\* call (a literal, a parsed or a cloned value), or a value the program owns,
\* which the call moves
Handed(made, types) ==
    {[a |-> x, own |-> Nil] : x \in made}
    \cup {[a |-> ArgOf(y), own |-> y] : y \in Holding(types)}

NoArg == [a |-> Nil, own |-> Nil]

\* the types of the crate that convert to a CollectionPath, a DocumentPath, a
\* DocumentId: the type itself and those with a From impl
IntoCollectionPath == {"CollectionId", "CollectionPath", "DocumentPath", "CollectionName"}
IntoDocumentPath == {"DocumentPath", "DocumentName"}
IntoDocumentId == {"DocumentId", "DocumentPath", "DocumentName"}

\* the owned value that a handed argument takes with it
Moved(g) == IF g.own = Nil THEN EmptyBag ELSE One(g.own)

\* a method call: the receiver is moved (self) or borrowed (&self, also through a
\* lent reference), an owned argument is moved, the result is owned, and every
\* other value the program holds stays as it is
Call(name, self, g, r, consumed, type, shape) ==
    /\ CanStep
    /\ IF self \in Held THEN (One(self) (+) Moved(g)) \sqsubseteq live
       ELSE self \in Lent /\ ~consumed /\ Moved(g) \sqsubseteq live
    /\ Segments(self) + (IF g.a = Nil THEN 0 ELSE ArgSegments(g.a)) <= MaxDepth
    /\ op' = name
    /\ recv' = self
    /\ arg' = g.a
    /\ result' = r
    /\ live' = ((live (-) (IF consumed THEN One(self) ELSE EmptyBag)) (-) Moved(g))
                    (+) Returned(type, r, shape)
    /\ BagCardinality(live') <= MaxHeld
    /\ Step

\* what is handed to a parameter of a constructor, as a typed value: made for
\* the call or owned
Passed(made, types) ==
    {[x |-> v, own |-> FALSE] : v \in made}
    \cup {[x |-> v, own |-> TRUE] : v \in Holding(types)}

\* an associated function with one or two parameters taken by value and no
\* receiver: the owned values handed over are moved into the result
Construct(name, p, q, r, type) ==
    /\ CanStep
    /\ LET taken == (IF p.own THEN One(p.x) ELSE EmptyBag)
                        (+) (IF q.own THEN One(q.x) ELSE EmptyBag)
       IN  /\ taken \sqsubseteq live
           /\ live' = (live (-) taken) (+) One(Typed(type, r))
    /\ Segments(Typed(type, r)) <= MaxDepth
    /\ BagCardinality(live') <= MaxHeld
    /\ op' = name
    /\ recv' = p.x
    /\ arg' = IF q.x = Nil THEN Nil ELSE ArgOf(q.x)
    /\ result' = r
    /\ Step

NoParam == [x |-> Nil, own |-> FALSE]

\* the values made for a call of a constructor
MadeDatabaseNames == {Typed("DatabaseName", d) : d \in StartDatabaseNames}
MadeProjectIds == {Typed("ProjectId", d.project_id) : d \in StartDatabaseNames}
MadeDatabaseIds ==
    {Typed("DatabaseId", d.database_id) : d \in StartDatabaseNames}
    \cup {Typed("DatabaseId", DatabaseId_default)}
MadeCollectionPaths ==
    {Typed("CollectionPath", CollectionPath_try_from(s).val) : s \in CollectionPathStrings}
MadeDocumentPaths ==
    {Typed("DocumentPath", DocumentPath_try_from(s).val) : s \in DocumentPathStrings}
MadeCollectionIds == {Typed("CollectionId", CollectionId_try_from(s).val) : s \in {S_messages, S_col}}
MadeDocumentIds == {Typed("DocumentId", DocumentId_try_from(s).val) : s \in {S_message1, S_chatroom1}}

InitNav ==
    /\ op = "init"
    /\ input = Nil
    /\ result = Nil
    /\ text = Nil
    /\ again = Nil
    /\ recv = Nil
    /\ arg = Nil
    /\ \E x \in StartValues : live = One(x)
    /\ frame = Nil
    /\ steps = 0

Call_DatabaseName_root_document_name ==
    \E self \in Holding({"DatabaseName"}) :
        Call("DatabaseName_root_document_name", self, NoArg, DatabaseName_root_document_name(self.val),
             FALSE, "RootDocumentName", "Value")

Call_DatabaseName_into_root_document_name ==
    \E self \in Holding({"DatabaseName"}) :
        Call("DatabaseName_into_root_document_name", self, NoArg, DatabaseName_into_root_document_name(self.val),
             TRUE, "RootDocumentName", "Value")

Call_DatabaseName_collection ==
    \E self \in Holding({"DatabaseName"}), g \in Handed(CollectionArgs, IntoCollectionPath) :
        Call("DatabaseName_collection", self, g, DatabaseName_collection(self.val, g.a),
             FALSE, "CollectionName", "Result")

Call_DatabaseName_into_collection ==
    \E self \in Holding({"DatabaseName"}), g \in Handed(CollectionArgs, IntoCollectionPath) :
        Call("DatabaseName_into_collection", self, g, DatabaseName_into_collection(self.val, g.a),
             TRUE, "CollectionName", "Result")

Call_DatabaseName_doc ==
    \E self \in Holding({"DatabaseName"}), g \in Handed(DocumentPathArgs, IntoDocumentPath) :
        Call("DatabaseName_doc", self, g, DatabaseName_doc(self.val, g.a),
             FALSE, "DocumentName", "Result")

Call_DatabaseName_into_doc ==
    \E self \in Holding({"DatabaseName"}), g \in Handed(DocumentPathArgs, IntoDocumentPath) :
        Call("DatabaseName_into_doc", self, g, DatabaseName_into_doc(self.val, g.a),
             TRUE, "DocumentName", "Result")

Call_RootDocumentName_collection ==
    \E self \in Holding({"RootDocumentName"}), g \in Handed(CollectionArgs, IntoCollectionPath) :
        Call("RootDocumentName_collection", self, g, RootDocumentName_collection(self.val, g.a),
             FALSE, "CollectionName", "Result")

Call_RootDocumentName_into_collection ==
    \E self \in Holding({"RootDocumentName"}), g \in Handed(CollectionArgs, IntoCollectionPath) :
        Call("RootDocumentName_into_collection", self, g, RootDocumentName_into_collection(self.val, g.a),
             TRUE, "CollectionName", "Result")

Call_RootDocumentName_doc ==
    \E self \in Holding({"RootDocumentName"}), g \in Handed(DocumentPathArgs, IntoDocumentPath) :
        Call("RootDocumentName_doc", self, g, RootDocumentName_doc(self.val, g.a),
             FALSE, "DocumentName", "Result")

Call_RootDocumentName_into_doc ==
    \E self \in Holding({"RootDocumentName"}), g \in Handed(DocumentPathArgs, IntoDocumentPath) :
        Call("RootDocumentName_into_doc", self, g, RootDocumentName_into_doc(self.val, g.a),
             TRUE, "DocumentName", "Result")

Call_CollectionName_new ==
    \E p \in Passed(MadeDatabaseNames, {"DatabaseName", "RootDocumentName"}),
       q \in Passed(MadeCollectionPaths, {"CollectionPath"}) :
        Construct("CollectionName_new", p, q, CollectionName_new(p.x.val, q.x.val),
                  "CollectionName")

Call_DocumentName_new ==
    \E p \in Passed(MadeDatabaseNames, {"DatabaseName", "RootDocumentName"}),
       q \in Passed(MadeDocumentPaths, {"DocumentPath"}) :
        Construct("DocumentName_new", p, q, DocumentName_new(p.x.val, q.x.val),
                  "DocumentName")

Call_CollectionName_doc ==
    \E self \in Holding({"CollectionName"}), g \in Handed(DocumentIdArgs, IntoDocumentId) :
        Call("CollectionName_doc", self, g, CollectionName_doc(self.val, g.a),
             FALSE, "DocumentName", "Result")

Call_CollectionName_into_doc ==
    \E self \in Holding({"CollectionName"}), g \in Handed(DocumentIdArgs, IntoDocumentId) :
        Call("CollectionName_into_doc", self, g, CollectionName_into_doc(self.val, g.a),
             TRUE, "DocumentName", "Result")

Call_CollectionName_parent ==
    \E self \in Holding({"CollectionName"}) :
        Call("CollectionName_parent", self, NoArg, CollectionName_parent(self.val),
             FALSE, "DocumentName", "Option")

Call_CollectionName_into_parent ==
    \E self \in Holding({"CollectionName"}) :
        Call("CollectionName_into_parent", self, NoArg, CollectionName_into_parent(self.val),
             TRUE, "DocumentName", "Option")

Call_DocumentName_collection ==
    \E self \in Holding({"DocumentName"}), g \in Handed(CollectionArgs, IntoCollectionPath) :
        Call("DocumentName_collection", self, g, DocumentName_collection(self.val, g.a),
             FALSE, "CollectionName", "Result")

Call_DocumentName_into_collection ==
    \E self \in Holding({"DocumentName"}), g \in Handed(CollectionArgs, IntoCollectionPath) :
        Call("DocumentName_into_collection", self, g, DocumentName_into_collection(self.val, g.a),
             TRUE, "CollectionName", "Result")

Call_DocumentName_doc ==
    \E self \in Holding({"DocumentName"}), g \in Handed(DocumentPathArgs, IntoDocumentPath) :
        Call("DocumentName_doc", self, g, DocumentName_doc(self.val, g.a),
             FALSE, "DocumentName", "Result")

Call_DocumentName_into_doc ==
    \E self \in Holding({"DocumentName"}), g \in Handed(DocumentPathArgs, IntoDocumentPath) :
        Call("DocumentName_into_doc", self, g, DocumentName_into_doc(self.val, g.a),
             TRUE, "DocumentName", "Result")

Call_DocumentName_parent ==
    \E self \in Holding({"DocumentName"}) :
        Call("DocumentName_parent", self, NoArg, DocumentName_parent(self.val),
             FALSE, "CollectionName", "Value")

Call_DocumentName_into_parent ==
    \E self \in Holding({"DocumentName"}) :
        Call("DocumentName_into_parent", self, NoArg, DocumentName_into_parent(self.val),
             TRUE, "CollectionName", "Value")

Call_DocumentName_parent_document_name ==
    \E self \in Holding({"DocumentName"}) :
        Call("DocumentName_parent_document_name", self, NoArg,
             DocumentName_parent_document_name(self.val), FALSE, "DocumentName", "Option")

Call_DocumentName_into_parent_document_name ==
    \E self \in Holding({"DocumentName"}) :
        Call("DocumentName_into_parent_document_name", self, NoArg,
             DocumentName_into_parent_document_name(self.val), TRUE, "DocumentName", "Option")

Call_CollectionPath_doc ==
    \E self \in Holding({"CollectionPath"}), g \in Handed(DocumentIdArgs, IntoDocumentId) :
        Call("CollectionPath_doc", self, g, CollectionPath_doc(self.val, g.a),
             TRUE, "DocumentPath", "Result")

Call_CollectionPath_parent ==
    \E self \in Holding({"CollectionPath"}) \cup Borrowed({"CollectionPath"}) :
        Call("CollectionPath_parent", self, NoArg, CollectionPath_parent(self.val),
             FALSE, "DocumentPath", "OptionRef")

Call_DocumentPath_collection ==
    \E self \in Holding({"DocumentPath"}), g \in Handed(CollectionArgs, IntoCollectionPath) :
        Call("DocumentPath_collection", self, g, DocumentPath_collection(self.val, g.a),
             TRUE, "CollectionPath", "Result")

Call_DocumentPath_doc ==
    \E self \in Holding({"DocumentPath"}), g \in Handed(DocumentPathArgs, IntoDocumentPath) :
        Call("DocumentPath_doc", self, g, DocumentPath_doc(self.val, g.a),
             FALSE, "DocumentPath", "Result")

Call_DocumentPath_into_doc ==
    \E self \in Holding({"DocumentPath"}), g \in Handed(DocumentPathArgs, IntoDocumentPath) :
        Call("DocumentPath_into_doc", self, g, DocumentPath_into_doc(self.val, g.a),
             TRUE, "DocumentPath", "Result")

Call_DocumentPath_parent ==
    \E self \in Holding({"DocumentPath"}) \cup Borrowed({"DocumentPath"}) :
        Call("DocumentPath_parent", self, NoArg, DocumentPath_parent(self.val),
             FALSE, "CollectionPath", "Ref")

\* #[derive(Clone)]: a second copy of a value the program owns or was lent
Call_clone ==
    \E self \in Held \cup Lent :
        /\ CanStep
        /\ op' = "clone"
        /\ recv' = self
        /\ arg' = Nil
        /\ result' = self.val
        /\ live' = live (+) One(self)
        /\ BagCardinality(live') <= MaxHeld
        /\ Step

\* the program lets go of one value it owns
Drop ==
    \E x \in Held :
        /\ CanStep
        /\ op' = "drop"
        /\ recv' = Nil
        /\ arg' = Nil
        /\ result' = Nil
        /\ live' = live (-) One(x)
        /\ Step

Call_CollectionName_into_root_document_name ==
    \E self \in Holding({"CollectionName"}) :
        Call("CollectionName_into_root_document_name", self, NoArg,
             CollectionName_into_root_document_name(self.val),
             TRUE, "RootDocumentName", "Value")

\* CollectionPath::new(parent, collection_id), the parent None or Some(document_path)
Call_CollectionPath_new ==
    \E p \in {NoParam} \cup Passed(MadeDocumentPaths, {"DocumentPath"}),
       q \in Passed(MadeCollectionIds, {"CollectionId"}) :
        Construct("CollectionPath_new", p, q,
                  CollectionPath_new(IF p.x = Nil THEN None ELSE Some(p.x.val), q.x.val),
                  "CollectionPath")

Call_DocumentPath_new ==
    \E p \in Passed(MadeCollectionPaths, {"CollectionPath"}),
       q \in Passed(MadeDocumentIds, {"DocumentId"}) :
        Construct("DocumentPath_new", p, q, DocumentPath_new(p.x.val, q.x.val),
                  "DocumentPath")

Call_RootDocumentName_new ==
    \E p \in Passed(MadeDatabaseNames, {"DatabaseName"}) :
        Construct("RootDocumentName_new", p, NoParam, RootDocumentName_new(p.x.val),
                  "RootDocumentName")

Call_DatabaseName_new ==
    \E p \in Passed(MadeProjectIds, {"ProjectId"}),
       q \in Passed(MadeDatabaseIds, {"DatabaseId"}) :
        Construct("DatabaseName_new", p, q, DatabaseName_new(p.x.val, q.x.val),
                  "DatabaseName")

\* impl From<CollectionName> for CollectionId, CollectionPath, DatabaseName
Call_From_CollectionName ==
    \E self \in Holding({"CollectionName"}) :
        \/ Call("CollectionId_from_CollectionName", self, NoArg,
                CollectionId_from_CollectionName(self.val), TRUE, "CollectionId", "Value")
        \/ Call("CollectionPath_from_CollectionName", self, NoArg,
                CollectionPath_from_CollectionName(self.val), TRUE, "CollectionPath", "Value")
        \/ Call("DatabaseName_from_CollectionName", self, NoArg,
                DatabaseName_from_CollectionName(self.val), TRUE, "DatabaseName", "Value")

\* impl From<DocumentName> for DatabaseName, DocumentId, DocumentPath
Call_From_DocumentName ==
    \E self \in Holding({"DocumentName"}) :
        \/ Call("DatabaseName_from_DocumentName", self, NoArg,
                DatabaseName_from_DocumentName(self.val), TRUE, "DatabaseName", "Value")
        \/ Call("DocumentId_from_DocumentName", self, NoArg,
                DocumentId_from_DocumentName(self.val), TRUE, "DocumentId", "Value")
        \/ Call("DocumentPath_from_DocumentName", self, NoArg,
                DocumentPath_from_DocumentName(self.val), TRUE, "DocumentPath", "Value")

\* impl From<DocumentPath> for CollectionPath, DocumentId
Call_From_DocumentPath ==
    \E self \in Holding({"DocumentPath"}) :
        \/ Call("CollectionPath_from_DocumentPath", self, NoArg,
                CollectionPath_from_DocumentPath(self.val), TRUE, "CollectionPath", "Value")
        \/ Call("DocumentId_from_DocumentPath", self, NoArg,
                DocumentId_from_DocumentPath(self.val), TRUE, "DocumentId", "Value")

\* impl From<CollectionPath> for CollectionId, Option<DocumentPath>
Call_From_CollectionPath ==
    \E self \in Holding({"CollectionPath"}) :
        \/ Call("CollectionId_from_CollectionPath", self, NoArg,
                CollectionId_from_CollectionPath(self.val), TRUE, "CollectionId", "Value")
        \/ Call("OptionDocumentPath_from_CollectionPath", self, NoArg,
                OptionDocumentPath_from_CollectionPath(self.val), TRUE, "DocumentPath", "Option")

\* impl From<CollectionId> for CollectionPath
Call_From_CollectionId ==
    \E self \in Holding({"CollectionId"}) :
        Call("CollectionPath_from_CollectionId", self, NoArg,
             CollectionPath_from_CollectionId(self.val), TRUE, "CollectionPath", "Value")

\* impl From<DatabaseName> for DatabaseId, ProjectId, RootDocumentName
Call_From_DatabaseName ==
    \E self \in Holding({"DatabaseName"}) :
        \/ Call("DatabaseId_from_DatabaseName", self, NoArg,
                DatabaseId_from_DatabaseName(self.val), TRUE, "DatabaseId", "Value")
        \/ Call("ProjectId_from_DatabaseName", self, NoArg,
                ProjectId_from_DatabaseName(self.val), TRUE, "ProjectId", "Value")
        \/ Call("RootDocumentName_from_DatabaseName", self, NoArg,
                RootDocumentName_from_DatabaseName(self.val), TRUE, "RootDocumentName", "Value")

\* impl From<RootDocumentName> for DatabaseName
Call_From_RootDocumentName ==
    \E self \in Holding({"RootDocumentName"}) :
        Call("DatabaseName_from_RootDocumentName", self, NoArg,
             DatabaseName_from_RootDocumentName(self.val), TRUE, "DatabaseName", "Value")

NextNav ==
    \/ Call_DatabaseName_root_document_name
    \/ Call_DatabaseName_into_root_document_name
    \/ Call_DatabaseName_collection
    \/ Call_DatabaseName_into_collection
    \/ Call_DatabaseName_doc
    \/ Call_DatabaseName_into_doc
    \/ Call_RootDocumentName_collection
    \/ Call_RootDocumentName_into_collection
    \/ Call_RootDocumentName_doc
    \/ Call_RootDocumentName_into_doc
    \/ Call_CollectionName_new
    \/ Call_DocumentName_new
    \/ Call_CollectionName_doc
    \/ Call_CollectionName_into_doc
    \/ Call_CollectionName_parent
    \/ Call_CollectionName_into_parent
    \/ Call_DocumentName_collection
    \/ Call_DocumentName_into_collection
    \/ Call_DocumentName_doc
    \/ Call_DocumentName_into_doc
    \/ Call_DocumentName_parent
    \/ Call_DocumentName_into_parent
    \/ Call_DocumentName_parent_document_name
    \/ Call_DocumentName_into_parent_document_name
    \/ Call_CollectionPath_doc
    \/ Call_CollectionPath_parent
    \/ Call_DocumentPath_collection
    \/ Call_DocumentPath_doc
    \/ Call_DocumentPath_into_doc
    \/ Call_DocumentPath_parent
    \/ Call_CollectionName_into_root_document_name
    \/ Call_CollectionPath_new
    \/ Call_DocumentPath_new
    \/ Call_RootDocumentName_new
    \/ Call_DatabaseName_new
    \/ Call_From_CollectionName
    \/ Call_From_DocumentName
    \/ Call_From_DocumentPath
    \/ Call_From_CollectionPath
    \/ Call_From_CollectionId
    \/ Call_From_DatabaseName
    \/ Call_From_RootDocumentName
    \/ Call_clone
    \/ Drop

SpecNav == InitNav /\ [][NextNav]_vars

(***************************************************************************)
(* The crate as a whole: a parser applied to an input, or any sequence of  *)
(* constructors and navigation operations.                                 *)
(***************************************************************************)
InitAll == Init \/ InitNav

\* the program is on a walk: it holds a value or has made a step; a run of a
\* parser holds nothing and makes none
Walking == live # EmptyBag \/ steps > 0

NextAll == Next \/ (Walking /\ NextNav)

SpecAll == InitAll /\ [][NextAll]_vars

(***************************************************************************)
(* Step by step.  DocumentPath::collection is run one loop turn at a time, *)
(* and the mutually recursive parsers of CollectionPath and DocumentPath   *)
(* one call and one return at a time.  frame holds                         *)
(*   pc     "convert", "decompose", "rebuild", "call", "return" or "done"  *)
(*   cur    the collection_path variable of the first loop                 *)
(*   comps  the path_components vector                                     *)
(*   acc    the result variable of the second loop                         *)
(*   k      the components the second loop has still to take               *)
(*   turns, rturns   the turns taken by the first and by the second loop   *)
(*   stack  the strings of the parser calls in progress, outermost first   *)
(*   calls  the parser calls made so far                                   *)
(*   ret    what the call that returned last has returned                  *)
(***************************************************************************)
RunReceivers ==
    {Typed("DocumentPath", DocumentPath_try_from(s).val) :
        s \in DocumentPathStrings \cup {ExamplePath}}

\* strings for the parsers, of no '/' up to MaxDepth - 1 of them, valid or not
RunInputs ==
    {ShortPath(n) : n \in 1..MaxDepth}
    \cup {ShortPath(n) \o <<"/">> : n \in 1..MaxArgSegs}
    \cup {<<"/">> \o ShortPath(n) : n \in 1..MaxArgSegs}
    \cup BadStrings \cup {<<"/">>, <<"/", "/">>, <<".", "/", "x">>, <<"x", "/", ".", ".", "/", "x", "/", "x">>}

Frame(pc, stack) ==
    [pc |-> pc, cur |-> Nil, comps |-> <<>>, acc |-> Nil, k |-> 0,
     turns |-> 0, rturns |-> 0, stack |-> stack, calls |-> Len(stack), ret |-> Nil]

InitRun ==
    /\ result = Nil
    /\ text = Nil
    /\ again = Nil
    /\ live = EmptyBag
    /\ steps = 0
    /\ \/ /\ op = "DocumentPath_collection"
          /\ input = Nil
          /\ recv \in RunReceivers
          /\ arg \in CollectionArgs
          /\ frame = Frame("convert", <<>>)
       \/ /\ op \in {"CollectionPath", "DocumentPath"}
          /\ input \in RunInputs
          /\ recv = Nil
          /\ arg = Nil
          /\ frame = Frame("call", <<input>>)

\* collection_path.try_into().map_err(..) for each argument of a run, worked out
\* once for all the runs
TryIntoResult ==
    [a \in CollectionArgs |-> MapErr(TryIntoCollectionPath(a), "CollectionIdConversion")]

\* collection_path.try_into().map_err(..)?
Run_convert ==
    /\ frame.pc = "convert"
    /\ LET r == TryIntoResult[arg]
       IN  IF r.ok
           THEN /\ frame' = [frame EXCEPT !.pc = "decompose", !.cur = r.val]
                /\ UNCHANGED result
           ELSE /\ frame' = [frame EXCEPT !.pc = "done"]
                /\ result' = r
    /\ UNCHANGED <<op, input, text, again, recv, arg, live, steps>>

\* one turn of loop { .. }
Run_decompose ==
    /\ frame.pc = "decompose"
    /\ LET d == decompose_step(frame.cur, frame.comps)
       IN  frame' = IF d.collection_path # None
                    THEN [frame EXCEPT !.comps = d.path_components,
                                       !.cur = d.collection_path[1],
                                       !.turns = @ + 1]
                    ELSE [frame EXCEPT !.comps = d.path_components,
                                       !.turns = @ + 1,
                                       !.pc = "rebuild",
                                       !.acc = [p |-> "D", v |-> recv.val],
                                       !.k = Len(d.path_components)]
    /\ UNCHANGED <<op, input, result, text, again, recv, arg, live, steps>>

\* one turn of for path_component in path_components.into_iter().rev() { .. }
Run_rebuild ==
    /\ frame.pc = "rebuild"
    /\ frame.k > 0
    /\ frame' = [frame EXCEPT !.acc = rebuild_step(frame.acc, frame.comps[frame.k]),
                              !.k = @ - 1,
                              !.rturns = @ + 1]
    /\ UNCHANGED <<op, input, result, text, again, recv, arg, live, steps>>

\* match result { .. }; Ok(collection_path)
Run_return ==
    /\ frame.pc = "rebuild"
    /\ frame.k = 0
    /\ frame' = [frame EXCEPT !.pc = "done"]
    /\ result' = rebuilt(frame.acc)
    /\ UNCHANGED <<op, input, text, again, recv, arg, live, steps>>

\* the type whose try_from the i-th call in progress is: the two types take turns
FrameKind(i) ==
    IF i % 2 = 1 THEN op
    ELSE IF op = "CollectionPath" THEN "DocumentPath" ELSE "CollectionPath"

\* Some((before, _)) = s.rsplit_once('/'): the recursive call on the text before
Parse_descend ==
    /\ frame.pc = "call"
    /\ rsplit_once(frame.stack[Len(frame.stack)]) # None
    /\ frame' = [frame EXCEPT
                     !.stack = Append(@, rsplit_once(frame.stack[Len(frame.stack)])[1][1]),
                     !.calls = @ + 1]
    /\ UNCHANGED <<op, input, result, text, again, recv, arg, live, steps>>

\* the innermost call in progress returns: the one that found no '/', or the one
\* whose recursive call has just returned
Parse_return ==
    /\ \/ frame.pc = "call" /\ rsplit_once(frame.stack[Len(frame.stack)]) = None
       \/ frame.pc = "return"
    /\ LET n == Len(frame.stack)
           r == frame_return(FrameKind(n), frame.stack[n],
                             IF frame.pc = "call" THEN None ELSE Some(frame.ret))
       IN  /\ frame' = [frame EXCEPT !.stack = SubSeq(@, 1, n - 1),
                                     !.ret = r,
                                     !.pc = IF n = 1 THEN "done" ELSE "return"]
           /\ result' = IF n = 1 THEN r ELSE result
    /\ UNCHANGED <<op, input, text, again, recv, arg, live, steps>>

NextRun ==
    \/ Run_convert
    \/ Run_decompose
    \/ Run_rebuild
    \/ Run_return
    \/ Parse_descend
    \/ Parse_return

\* a step that can be taken is taken: the program runs on its own
SpecRun == InitRun /\ [][NextRun]_vars /\ WF_vars(NextRun)

(***************************************************************************)
(* C2: every CollectionName or DocumentName the program comes to own by    *)
(* constructors and navigation from valid identifiers parses back from its *)
(* string form: the parser accepts the string and returns an equal value.  *)
(* The constructors and the descend operations put no limit on the length  *)
(* of the name they build, while the parsers turn down any string longer   *)
(* than 6144 bytes: a name of five 1500-byte identifiers is built, in one  *)
(* descent or in five, and is not parsed back.                             *)
(***************************************************************************)
Reparsed(x) ==
    IF x.type = "CollectionName" THEN CollectionName_try_from(CollectionName_fmt(x.val))
    ELSE DocumentName_try_from(DocumentName_fmt(x.val))

\* C2 as stated: every owned CollectionName or DocumentName parses back from its string form.
Orig_C2 ==
    \A x \in Holding({"CollectionName", "DocumentName"}) :
        Reparsed(x).ok /\ Reparsed(x).val = x.val

\* a CollectionName built in one descent whose string form the parser rejects
Wit_C2 ==
    \E x \in Holding({"CollectionName"}) :
        /\ op = "DatabaseName_collection"
        /\ arg = StrArg(LongCollectionPath)
        /\ result = Ok(x.val)
        /\ Len(CollectionName_fmt(x.val)) > 6144
        /\ ErrIs(Reparsed(x), "LengthOutOfBounds")

(***************************************************************************)
(* C3: for a DocumentPath d and a CollectionPath c of one or more          *)
(* collection segments, d.collection(c) succeeds and is the CollectionPath *)
(* parsed from d's string, "/", c's string: the identifiers of d and then  *)
(* of c, each kept and in order, and the root collection of c has d as its *)
(* parent.                                                                 *)
(***************************************************************************)
\* the identifiers of a relative path, root first
RECURSIVE CollectionPathIds(_), DocumentPathIds(_)
CollectionPathIds(c) ==
    (IF c.document_path = None THEN <<>> ELSE DocumentPathIds(c.document_path[1]))
        \o <<c.collection_id.inner>>
DocumentPathIds(d) == CollectionPathIds(d.collection_path) \o <<d.document_id.inner>>

\* the parent of the collection of r that stands where c has its root
RECURSIVE RootParent(_, _)
RootParent(r, c) ==
    IF c.document_path = None THEN r.document_path
    ELSE RootParent(r.document_path[1].collection_path, c.document_path[1].collection_path)

AppendsUnder(d, c) ==
    /\ result.ok
    /\ result = CollectionPath_try_from(DocumentPath_fmt(d) \o <<"/">> \o CollectionPath_fmt(c))
    /\ CollectionPathIds(result.val) = DocumentPathIds(d) \o CollectionPathIds(c)
    /\ RootParent(result.val, c) = Some(d)

\* C3: d.collection(c) is the parse of d + "/" + c, with every identifier kept in order.
Thm_C3 ==
    op = "DocumentPath_collection" /\ TryIntoCollectionPath(arg).ok =>
        AppendsUnder(recv.val, TryIntoCollectionPath(arg).val)

Wit_C3 ==
    /\ op = "DocumentPath_collection"
    /\ IsCollectionPathArg(arg)
    /\ CollectionPathSegments(arg.path) = 3
    /\ DocumentPathSegments(recv.val) = 2
    /\ result.ok
    /\ CollectionPathSegments(result.val) = 5

(***************************************************************************)
(* C5: for a DatabaseName db, its RootDocumentName r and a valid relative  *)
(* path p, db.collection(p), r.collection(p), db.doc(p) and r.doc(p)       *)
(* succeed and format as                                                   *)
(* "projects/{project_id}/databases/{database_id}/documents/" + p, and the *)
(* value built from db is the value built from r.  In particular           *)
(* DatabaseName::new(my-project, my-database).collection("chatrooms")      *)
(* .doc("chatroom1") formats as                                            *)
(* "projects/my-project/databases/my-database/documents/chatrooms/         *)
(* chatroom1".                                                             *)
(***************************************************************************)
DocumentsPrefix(db) ==
    S_projects \o <<"/">> \o db.project_id.inner \o <<"/">> \o S_databases \o <<"/">>
        \o db.database_id.inner \o <<"/">> \o S_documents \o <<"/">>

\* the relative path an argument stands for, as a string
ArgString(a) ==
    IF "str" \in DOMAIN a THEN a.str
    ELSE IF "id" \in DOMAIN a THEN a.id.inner
    ELSE IF IsDocumentPathArg(a) THEN join(DocumentPathIds(a.path))
    ELSE IF "path" \in DOMAIN a THEN join(CollectionPathIds(a.path))
    ELSE IF IsDocumentNameArg(a) THEN join(DocumentPathIds(a.name.document_path))
    ELSE join(CollectionPathIds(a.name.collection_path))

\* the relative collection path an argument of collection stands for: its own
\* path, or for a DocumentPath value the collection path the document lies in
CollectionString(a) ==
    IF IsDocumentPathArg(a) THEN join(CollectionPathIds(DocumentPath_parent(a.path)))
    ELSE ArgString(a)

ValidCollectionArg(a) ==
    "str" \in DOMAIN a => PartCount(a.str) % 2 = 1 /\ AllSegmentsValid(a.str)

ValidDocumentArg(a) ==
    "str" \in DOMAIN a => PartCount(a.str) % 2 = 0 /\ AllSegmentsValid(a.str)

DatabaseOf(x) == IF x.type = "DatabaseName" THEN x.val ELSE x.val.database_name

CollectionOps ==
    {"DatabaseName_collection", "DatabaseName_into_collection",
     "RootDocumentName_collection", "RootDocumentName_into_collection"}

DocOps ==
    {"DatabaseName_doc", "DatabaseName_into_doc",
     "RootDocumentName_doc", "RootDocumentName_into_doc"}

MyDatabase == DatabaseName_new(ProjectId(S_my_project), DatabaseId(S_my_database))

ChatroomsOfMyDatabase == DatabaseName_collection(MyDatabase, StrArg(S_chatrooms)).val

Chatroom1Name ==
    S_projects \o <<"/">> \o S_my_project \o <<"/">> \o S_databases \o <<"/">>
        \o S_my_database \o <<"/">> \o S_documents \o <<"/">> \o S_chatrooms
        \o <<"/">> \o S_chatroom1

\* collection and doc on a database or root format as the documents prefix
\* followed by the path that p(argument) reads off the argument of collection
FormatsAsPrefixAnd(p(_)) ==
    /\ op \in CollectionOps =>
        /\ result.ok <=> ValidCollectionArg(arg)
        /\ result.ok =>
            CollectionName_fmt(result.val) = DocumentsPrefix(DatabaseOf(recv)) \o p(arg)
        /\ result = DatabaseName_collection(DatabaseOf(recv), arg)
        /\ result = RootDocumentName_collection(
                        DatabaseName_root_document_name(DatabaseOf(recv)), arg)
    /\ op \in DocOps =>
        /\ result.ok <=> ValidDocumentArg(arg)
        /\ result.ok =>
            DocumentName_fmt(result.val) = DocumentsPrefix(DatabaseOf(recv)) \o ArgString(arg)
        /\ result = DatabaseName_doc(DatabaseOf(recv), arg)
        /\ result = RootDocumentName_doc(DatabaseName_root_document_name(DatabaseOf(recv)), arg)
    /\ op \in {"CollectionName_doc", "CollectionName_into_doc"}
          /\ recv.val = ChatroomsOfMyDatabase /\ arg = StrArg(S_chatroom1) =>
        result.ok /\ DocumentName_fmt(result.val) = Chatroom1Name

\* C5 as stated: the result formats as the documents prefix + the argument's own path.
Orig_C5 == FormatsAsPrefixAnd(ArgString)

\* C5: the result formats as the documents prefix + the path the argument converts to.
Thm_C5 == FormatsAsPrefixAnd(CollectionString)

\* a DocumentPath value handed to collection: the name built is that of the
\* collection the document lies in
Converted_C5 ==
    /\ op = "DatabaseName_collection"
    /\ IsDocumentPathArg(arg)
    /\ result.ok
    /\ CollectionName_fmt(result.val)
           = DocumentsPrefix(recv.val) \o join(CollectionPathIds(DocumentPath_parent(arg.path)))
    /\ CollectionName_fmt(result.val) # DocumentsPrefix(recv.val) \o ArgString(arg)

Wit_C5 ==
    /\ op = "RootDocumentName_collection"
    /\ "str" \in DOMAIN arg
    /\ PartCount(arg.str) = 3
    /\ result.ok
    /\ CollectionName_fmt(result.val) = DocumentsPrefix(recv.val.database_name) \o arg.str

\* the named example of C5 is reached
Example_C5 ==
    /\ op = "CollectionName_doc"
    /\ recv.val = ChatroomsOfMyDatabase
    /\ arg = StrArg(S_chatroom1)
    /\ DocumentName_fmt(result.val) = Chatroom1Name

(***************************************************************************)
(* C11: DatabaseName parsing accepts exactly the strings                   *)
(* "projects/{ProjectId}/databases/{DatabaseId}" of four '/'-separated     *)
(* parts and formats back to that form; the five-part root form ending in  *)
(* "/documents" is rejected by DatabaseName parsing and, of the name       *)
(* parsers, accepted by RootDocumentName parsing alone.                    *)
(***************************************************************************)
DatabaseNameShape(s) ==
    /\ Len(s) >= 1 /\ Len(s) <= 6144
    /\ PartCount(s) = 4
    /\ split(s)[1] = S_projects
    /\ ValidProjectIdString(split(s)[2])
    /\ split(s)[3] = S_databases
    /\ ValidDatabaseIdString(split(s)[4])

\* s is a DatabaseName string followed by "/documents"
RootForm(s) ==
    /\ Len(s) > 10
    /\ SubSeq(s, Len(s) - 9, Len(s)) = <<"/">> \o S_documents
    /\ DatabaseNameShape(SubSeq(s, 1, Len(s) - 10))

\* C11: the accepted DatabaseName strings, their formatting, and the root form.
Thm_C11 ==
    /\ op = "DatabaseName" =>
        /\ result.ok <=> DatabaseNameShape(input)
        /\ result.ok =>
            /\ result.val.project_id.inner = split(input)[2]
            /\ result.val.database_id.inner = split(input)[4]
            /\ text = S_projects \o <<"/">> \o result.val.project_id.inner \o <<"/">>
                        \o S_databases \o <<"/">> \o result.val.database_id.inner
        /\ RootForm(input) => ~result.ok
    /\ RootForm(input) =>
        /\ op = "RootDocumentName" => result.ok
        /\ op \in {"CollectionName", "DocumentName"} => ~result.ok

Wit_C11 ==
    /\ op = "DatabaseName"
    /\ RootForm(input)
    /\ ErrIs(result, "InvalidNumberOfPathComponents")

(***************************************************************************)
(* C12: DatabaseName, RootDocumentName, CollectionName and DocumentName    *)
(* parsing reject the empty string and every string longer than 6144 bytes *)
(* with LengthOutOfBounds, before the parts are counted (the empty string  *)
(* yields LengthOutOfBounds, not InvalidNumberOfPathComponents); a         *)
(* well-formed CollectionName or DocumentName string of exactly 6144 bytes *)
(* is accepted and one of 6145 bytes is rejected.                          *)
(***************************************************************************)
NameTypes == {"DatabaseName", "RootDocumentName", "CollectionName", "DocumentName"}

\* a valid root followed by n valid segments
WellFormedName(s, n) ==
    /\ PartCount(s) = 5 + n
    /\ DatabaseNameShape(join(SubSeq(split(s), 1, 4)))
    /\ split(s)[5] = S_documents
    /\ \A k \in 6..(5 + n) : ValidIdString(split(s)[k])

\* C12: the length check of the four name parsers and its place before the part count.
Thm_C12 ==
    op \in NameTypes =>
        /\ Len(input) = 0 \/ Len(input) > 6144 => ErrIs(result, "LengthOutOfBounds")
        /\ op = "CollectionName" /\ (\E n \in {1, 3, 5} : WellFormedName(input, n)) =>
            /\ Len(input) <= 6144 => result.ok
            /\ Len(input) > 6144 => ~result.ok
        /\ op = "DocumentName" /\ (\E n \in {2, 4, 6} : WellFormedName(input, n)) =>
            /\ Len(input) <= 6144 => result.ok
            /\ Len(input) > 6144 => ~result.ok

Wit_C12 ==
    /\ op = "DocumentName"
    /\ WellFormedName(input, 6)
    /\ Len(input) = 6144
    /\ result.ok

(***************************************************************************)
(* C13: CollectionName.parent() and into_parent() return None exactly when *)
(* the collection path has a single segment; otherwise they return the     *)
(* DocumentName with the same root prefix whose path is the collection     *)
(* path without its last segment.                                          *)
(***************************************************************************)
Front(ids) == SubSeq(ids, 1, Len(ids) - 1)

CollectionParentOps == {"CollectionName_parent", "CollectionName_into_parent"}

\* C13: the parent of a CollectionName is absent for one segment, else the enclosing document.
Thm_C13 ==
    op \in CollectionParentOps =>
        /\ result = None <=> Len(CollectionPathIds(recv.val.collection_path)) = 1
        /\ result # None =>
            /\ result[1].root_document_name = recv.val.root_document_name
            /\ DocumentPathIds(result[1].document_path)
                   = Front(CollectionPathIds(recv.val.collection_path))
            /\ DocumentName_fmt(result[1]) = BeforeLast(CollectionName_fmt(recv.val))

Wit_C13 ==
    /\ op = "CollectionName_parent"
    /\ Len(CollectionPathIds(recv.val.collection_path)) = 3
    /\ result # None
    /\ DocumentPathIds(result[1].document_path) = <<S_chatrooms, S_chatroom1>>

\* the other case of C13: a top-level collection has no parent
Wit_C13_none ==
    /\ op = "CollectionName_into_parent"
    /\ Len(CollectionPathIds(recv.val.collection_path)) = 1
    /\ result = None

(***************************************************************************)
(* C14: DocumentName.parent() and into_parent() always return a            *)
(* CollectionName with the same root prefix whose path is the document     *)
(* path without its leaf document id; for n built as                       *)
(* root.doc("chatrooms/chatroom1/messages/message1"),                      *)
(* n.parent().collection_id() is "messages" and n.parent().parent() is     *)
(* present and is a DocumentName whose document_id() is "chatroom1".       *)
(***************************************************************************)
DocumentParentOps == {"DocumentName_parent", "DocumentName_into_parent"}

\* root.doc("chatrooms/chatroom1/messages/message1") under each database name the walks start from
ExampleNames ==
    {RootDocumentName_doc(DatabaseName_root_document_name(db), StrArg(ExamplePath)).val :
        db \in StartDatabaseNames}

\* C14: the parent of a DocumentName is the enclosing collection under the same root.
Thm_C14 ==
    op \in DocumentParentOps =>
        /\ result.root_document_name = recv.val.root_document_name
        /\ CollectionPathIds(result.collection_path)
               = Front(DocumentPathIds(recv.val.document_path))
        /\ CollectionName_fmt(result) = BeforeLast(DocumentName_fmt(recv.val))
        /\ recv.val \in ExampleNames =>
            /\ CollectionName_collection_id(result) = CollectionId(S_messages)
            /\ CollectionName_parent(result) # None
            /\ DocumentName_document_id(CollectionName_parent(result)[1])
                   = DocumentId(S_chatroom1)
            /\ CollectionName_parent(result)[1].root_document_name
                   = recv.val.root_document_name

Wit_C14 ==
    /\ op = "DocumentName_parent"
    /\ recv.val \in ExampleNames
    /\ CollectionName_collection_id(result) = CollectionId(S_messages)

(***************************************************************************)
(* C15: DocumentName.parent_document_name() and                            *)
(* into_parent_document_name() return None exactly when the document path  *)
(* has two segments and otherwise return the DocumentName with the same    *)
(* root prefix whose path drops the last two segments; the result always   *)
(* equals parent().parent().                                               *)
(***************************************************************************)
ParentDocumentOps ==
    {"DocumentName_parent_document_name", "DocumentName_into_parent_document_name"}

\* C15: the parent document is absent for a top-level document, else two segments up.
Thm_C15 ==
    op \in ParentDocumentOps =>
        /\ result = None <=> Len(DocumentPathIds(recv.val.document_path)) = 2
        /\ result # None =>
            /\ result[1].root_document_name = recv.val.root_document_name
            /\ DocumentPathIds(result[1].document_path)
                   = Front(Front(DocumentPathIds(recv.val.document_path)))
            /\ DocumentName_fmt(result[1])
                   = BeforeLast(BeforeLast(DocumentName_fmt(recv.val)))
        /\ result = CollectionName_parent(DocumentName_parent(recv.val))

Wit_C15 ==
    /\ op = "DocumentName_parent_document_name"
    /\ Len(DocumentPathIds(recv.val.document_path)) = 4
    /\ result # None
    /\ DocumentPathIds(result[1].document_path) = <<S_chatrooms, S_chatroom1>>

\* the other case of C15: a top-level document has no parent document
Wit_C15_none ==
    /\ op = "DocumentName_into_parent_document_name"
    /\ Len(DocumentPathIds(recv.val.document_path)) = 2
    /\ result = None

(***************************************************************************)
(* C16: for every DocumentPath or DocumentName d and every relative        *)
(* DocumentPath p of any depth (given as a value or as a string), d.doc(p) *)
(* and d.into_doc(p) equal the value parsed from d's string + "/" + p's    *)
(* string; for a DocumentName the root prefix is unchanged, and            *)
(* DocumentName.collection(c) likewise equals the CollectionName parsed    *)
(* from d's string + "/" + c's string.                                     *)
(***************************************************************************)
PathDocOps == {"DocumentPath_doc", "DocumentPath_into_doc"}
NameDocOps == {"DocumentName_doc", "DocumentName_into_doc"}
NameCollectionOps == {"DocumentName_collection", "DocumentName_into_collection"}

\* d's string + "/" + the argument's string
Joined(d, a) == d \o <<"/">> \o ArgString(a)

\* d's string + "/" + the string of the collection path the argument converts to
JoinedCollection(d, a) == d \o <<"/">> \o CollectionString(a)

\* the descent of the last call is the parse of the joined string, for the names
\* whenever within(joined string); under(d, a) joins d and the collection argument a
DescentIsParse(within(_), under(_, _)) ==
    /\ op \in PathDocOps /\ TryIntoDocumentPath(arg).ok =>
        result = DocumentPath_try_from(Joined(DocumentPath_fmt(recv.val), arg))
    /\ op \in NameDocOps /\ TryIntoDocumentPath(arg).ok =>
        /\ result.ok
        /\ result.val.root_document_name = recv.val.root_document_name
        /\ within(Joined(DocumentName_fmt(recv.val), arg)) =>
            result = DocumentName_try_from(Joined(DocumentName_fmt(recv.val), arg))
    /\ op \in NameCollectionOps /\ TryIntoCollectionPath(arg).ok =>
        /\ result.ok
        /\ result.val.root_document_name = recv.val.root_document_name
        /\ within(under(DocumentName_fmt(recv.val), arg)) =>
            result = CollectionName_try_from(under(DocumentName_fmt(recv.val), arg))

\* C16 as stated: doc and collection under a document equal the parse of the joined string.
Orig_C16 == DescentIsParse(LAMBDA s : TRUE, Joined)

\* what holds of C16: the same, for names whose joined string is within 6144 bytes
\* and with a DocumentPath value handed to collection read as the collection it lies in
Within_C16 == DescentIsParse(LAMBDA s : Len(s) <= 6144, JoinedCollection)

\* a collection appended under a DocumentName whose joined string the parser rejects
Wit_C16 ==
    /\ op = "DocumentName_collection"
    /\ arg = StrArg(LongSubcollectionPath)
    /\ recv.val = DatabaseName_doc(MyDatabase, StrArg(LongDocumentPath)).val
    /\ result.ok
    /\ ErrIs(CollectionName_try_from(Joined(DocumentName_fmt(recv.val), arg)),
             "LengthOutOfBounds")

(***************************************************************************)
(* C17: the non-consuming operations doc, collection, parent,              *)
(* parent_document_name and root_document_name on CollectionPath,          *)
(* DocumentPath, CollectionName, DocumentName, DatabaseName and            *)
(* RootDocumentName leave the receiver unchanged: after any such call,     *)
(* whether it succeeds or fails, the receiver equals its value before the  *)
(* call, and a second call with the same argument returns an equal result. *)
(***************************************************************************)
\* the operations of the claim, by the names the calls leave in op
NonConsumingOps ==
    {"DatabaseName_root_document_name", "DatabaseName_collection", "DatabaseName_doc",
     "RootDocumentName_collection", "RootDocumentName_doc",
     "CollectionName_doc", "CollectionName_parent",
     "DocumentName_collection", "DocumentName_doc", "DocumentName_parent",
     "DocumentName_parent_document_name",
     "CollectionPath_doc", "CollectionPath_parent",
     "DocumentPath_collection", "DocumentPath_doc", "DocumentPath_parent"}

\* the two of them that take self by value in the sources
BySelfValue == {"CollectionPath_doc", "DocumentPath_collection"}

\* the paths a path holds inside it, which parent() lends
RECURSIVE PathsInside(_)
PathsInside(x) ==
    IF x.type = "DocumentPath"
        THEN {Typed("CollectionPath", DocumentPath_parent(x.val))}
             \cup PathsInside(Typed("CollectionPath", DocumentPath_parent(x.val)))
    ELSE IF x.type = "CollectionPath" /\ CollectionPath_parent(x.val) # None
        THEN {Typed("DocumentPath", CollectionPath_parent(x.val)[1])}
             \cup PathsInside(Typed("DocumentPath", CollectionPath_parent(x.val)[1]))
    ELSE {}

\* the caller still has the receiver of the last call, as it was: it owns it, or
\* the call was made on a lent reference and it owns the path that lent it
ReceiverKept ==
    \/ recv \in Held
    \/ op \in RefOps /\ \E x \in Held : recv \in PathsInside(x)

\* C17 as stated: after each of the listed operations the receiver is still there, unchanged.
Orig_C17 == op \in NonConsumingOps => ReceiverKept

\* what holds of C17: the same, for the operations that borrow self
Borrowing_C17 == op \in NonConsumingOps \ BySelfValue => ReceiverKept

\* a CollectionPath whose doc call succeeded and left the caller without the receiver
Wit_C17 ==
    /\ op = "CollectionPath_doc"
    /\ CollectionPath_fmt(recv.val) = S_col
    /\ arg = StrArg(S_chatroom1)
    /\ result.ok
    /\ ~ReceiverKept

(***************************************************************************)
(* C18: when the argument of a descend operation cannot be converted, the  *)
(* operation returns an error of the conversion kind that names the        *)
(* failing argument, carrying the nested failure's rendered message, and   *)
(* produces no path or name value: DocumentIdConversion for doc on a       *)
(* CollectionPath/CollectionName, CollectionPathConversion for collection  *)
(* on a DatabaseName/RootDocumentName, DocumentPathConversion for doc on a *)
(* DatabaseName/RootDocumentName, and CollectionIdConversion for           *)
(* collection on a DocumentPath.                                           *)
(***************************************************************************)
IdDocOps == {"CollectionPath_doc", "CollectionName_doc", "CollectionName_into_doc"}

\* the last call failed with this kind, carries the message of the nested failure,
\* and handed no value to the caller
FailsWith(kind, nested) ==
    /\ ErrIs(result, kind)
    /\ "src" \in DOMAIN result
    /\ Error_fmt(result.src) = Error_fmt(nested)
    /\ "val" \notin DOMAIN result

\* C18: a descend operation whose argument does not convert fails with the kind of that argument.
Thm_C18 ==
    /\ op \in IdDocOps /\ ~TryIntoDocumentId(arg).ok =>
        FailsWith("DocumentIdConversion", TryIntoDocumentId(arg))
    /\ op \in CollectionOps /\ ~TryIntoCollectionPath(arg).ok =>
        FailsWith("CollectionPathConversion", TryIntoCollectionPath(arg))
    /\ op \in DocOps /\ ~TryIntoDocumentPath(arg).ok =>
        FailsWith("DocumentPathConversion", TryIntoDocumentPath(arg))
    /\ op = "DocumentPath_collection" /\ ~TryIntoCollectionPath(arg).ok =>
        FailsWith("CollectionIdConversion", TryIntoCollectionPath(arg))

Wit_C18 ==
    /\ op = "DatabaseName_collection"
    /\ arg = StrArg(S_chatrooms \o <<"/">> \o S_chatroom1)
    /\ ErrIs(result, "CollectionPathConversion")
    /\ Error_fmt(result.src) = <<"not contains slash">>

\* the other kinds of C18, each after a call that failed
Wit_C18_kinds ==
    \/ op = "CollectionPath_doc" /\ ErrIs(result, "DocumentIdConversion")
    \/ op = "DocumentPath_collection" /\ ErrIs(result, "CollectionIdConversion")
    \/ op = "RootDocumentName_doc" /\ ErrIs(result, "DocumentPathConversion")

(***************************************************************************)
(* C19: a rejected ProjectId input yields the error kind of the rule it    *)
(* violates: LengthOutOfBounds for a length outside 6..=30,                *)
(* ContainsInvalidCharacter for a character outside lowercase letters,     *)
(* digits and '-', StartsWithNonLetter for a first character that is not a *)
(* lowercase letter, EndsWithHyphen for a trailing '-', and a              *)
(* reserved-substring error for a string containing "google", "null",      *)
(* "undefined" or "ssl".                                                   *)
(***************************************************************************)
ProjectIdLengthOk(s) == Len(s) >= 6 /\ Len(s) <= 30

ProjectIdCharsOk(s) == \A i \in 1..Len(s) : s[i] \in Lower \cup Digit \cup {"-"}

HasReservedWord(s) ==
    \E w \in {S_google, S_null, S_undefined, S_ssl} : Occurs(w, s)

\* the kinds error.rs gives to the first four rules
RuleKinds ==
    {"LengthOutOfBounds", "ContainsInvalidCharacter", "StartsWithNonLetter", "EndsWithHyphen"}

\* C19 as stated: the kind of a rejected ProjectId tells the rule the input violates.
Orig_C19 ==
    op = "ProjectId" =>
        /\ ~ProjectIdLengthOk(input) => ErrIs(result, "LengthOutOfBounds")
        /\ ProjectIdLengthOk(input) /\ ~ProjectIdCharsOk(input) =>
            ErrIs(result, "ContainsInvalidCharacter")
        /\ ProjectIdLengthOk(input) /\ ProjectIdCharsOk(input) /\ input[1] \notin Lower =>
            ErrIs(result, "StartsWithNonLetter")
        /\ ProjectIdLengthOk(input) /\ ProjectIdCharsOk(input) /\ input[1] \in Lower
               /\ input[Len(input)] = "-" =>
            ErrIs(result, "EndsWithHyphen")
        /\ ProjectIdLengthOk(input) /\ ProjectIdCharsOk(input) /\ input[1] \in Lower
               /\ input[Len(input)] # "-" /\ HasReservedWord(input) =>
            ~result.ok /\ result.err \notin RuleKinds

\* what the sources do: one kind, ToDo, for every rejected ProjectId
OneKind_C19 == op = "ProjectId" /\ ~result.ok => ErrIs(result, "ToDo")

\* a ProjectId input that is too short and is rejected with ToDo
Wit_C19 ==
    /\ op = "ProjectId"
    /\ Len(input) \in 1..5
    /\ ErrIs(result, "ToDo")

(***************************************************************************)
(* C20: for every string accepted by the parser of a fully-qualified name  *)
(* (CollectionName or DocumentName), the number of parts after splitting   *)
(* on '/' equals 5 (the root prefix) plus a non-zero number of parts for   *)
(* the relative portion: an odd number for a CollectionName, an even       *)
(* number for a DocumentName.                                              *)
(***************************************************************************)
RelativeParts(s) == PartCount(s) - RootParts

\* C20: an accepted CollectionName has 5 + an odd number of parts, a DocumentName 5 + an even one.
Thm_C20 ==
    /\ op = "CollectionName" /\ result.ok =>
        RelativeParts(input) > 0 /\ RelativeParts(input) % 2 = 1
    /\ op = "DocumentName" /\ result.ok =>
        RelativeParts(input) > 0 /\ RelativeParts(input) % 2 = 0

\* C20 as first stated: an even, non-zero number of relative parts for both.
Orig_C20 ==
    op \in {"CollectionName", "DocumentName"} /\ result.ok =>
        RelativeParts(input) > 0 /\ RelativeParts(input) % 2 = 0

Wit_C20 ==
    /\ op = "CollectionName"
    /\ result.ok
    /\ RelativeParts(input) = 1

(***************************************************************************)
(* C21: for every string s, the reserved-pattern check applied by          *)
(* CollectionId and DocumentId parsing (s starts with "__" and s ends with *)
(* "__") gives the same verdict as s matching the regular expression       *)
(* __.*__ that the documentation and the error message name.               *)
(***************************************************************************)
S_underscores == <<"_", "_">>

\* the check of the parsers, as written in the sources
ReservedCheck(s) == starts_with(s, S_underscores) /\ ends_with(s, S_underscores)

\* s as a whole matches __.*__ : two underscores, any characters, two more underscores
MatchesWhole(s) ==
    \E n \in 0..(Len(s) - 4) :
        /\ Len(s) = 2 + n + 2
        /\ SubSeq(s, 1, 2) = S_underscores
        /\ SubSeq(s, 2 + n + 1, 2 + n + 2) = S_underscores

\* some part of s matches __.*__ (a search without anchors)
MatchesWithin(s) ==
    \E i \in {k \in 1..(Len(s) - 3) : s[k] = "_" /\ s[k + 1] = "_"} :
        \E j \in (i + 2)..(Len(s) - 1) : s[j] = "_" /\ s[j + 1] = "_"

IdTypes == {"CollectionId", "DocumentId"}

\* C21 as stated: the check of the parsers and the regular expression agree on every input.
Orig_C21 ==
    op \in IdTypes =>
        /\ ReservedCheck(input) <=> MatchesWhole(input)
        /\ ErrIs(result, "MatchesReservedIdPattern") => MatchesWhole(input)

\* the same with the expression searched for inside the string
Orig_C21_within ==
    op \in IdTypes =>
        /\ ReservedCheck(input) <=> MatchesWithin(input)
        /\ ErrIs(result, "MatchesReservedIdPattern") => MatchesWithin(input)

\* what holds of C21: the two agree on every string of four bytes or more
FourOrMore_C21 ==
    op \in IdTypes /\ Len(input) >= 4 =>
        /\ ReservedCheck(input) <=> MatchesWhole(input)
        /\ ErrIs(result, "MatchesReservedIdPattern") => MatchesWhole(input)

\* "__" rejected as reserved although no part of it matches the expression
Wit_C21 ==
    /\ op = "CollectionId"
    /\ input = S_underscores
    /\ ErrIs(result, "MatchesReservedIdPattern")
    /\ ~MatchesWhole(input) /\ ~MatchesWithin(input)

(***************************************************************************)
(* C22: DatabaseId::default() formats as "(default)" and is equal to the   *)
(* DatabaseId obtained by parsing the string "(default)".                  *)
(***************************************************************************)
\* C22: the default DatabaseId is the parse of "(default)" and formats as that string.
Thm_C22 ==
    /\ DatabaseId_fmt(DatabaseId_default) = S_default
    /\ op = "DatabaseId" /\ input = S_default =>
        /\ result = Ok(DatabaseId_default)
        /\ text = DatabaseId_fmt(DatabaseId_default)
    /\ op = "DatabaseId" /\ result.ok /\ result.val = DatabaseId_default =>
        input = S_default

Wit_C22 ==
    /\ op = "DatabaseId"
    /\ input = S_default
    /\ result.ok
    /\ result.val = DatabaseId_default

(***************************************************************************)
(* C23: DatabaseName::from_project_id(p), for every valid project id p     *)
(* given as a string or as a ProjectId, returns the DatabaseName whose     *)
(* project id is p and whose database id is the default "(default)", so it *)
(* formats as "projects/{p}/databases/(default)"; for an invalid project   *)
(* id string it returns an error.                                          *)
(***************************************************************************)
\* C23: from_project_id pairs a valid project id with the default database id, else fails.
Thm_C23 ==
    op = "DatabaseName_from_project_id" =>
        /\ result.ok <=> ValidProjectIdString(ArgString(arg))
        /\ "id" \in DOMAIN arg => result.ok
        /\ result.ok =>
            /\ result.val.project_id = ProjectId(ArgString(arg))
            /\ result.val.database_id = DatabaseId_default
            /\ text = S_projects \o <<"/">> \o ArgString(arg) \o <<"/">>
                          \o S_databases \o <<"/">> \o S_default
            /\ again = result

Wit_C23 ==
    /\ op = "DatabaseName_from_project_id"
    /\ arg = StrArg(S_my_project)
    /\ result.ok
    /\ text = S_projects \o <<"/">> \o S_my_project \o <<"/">> \o S_databases \o <<"/">> \o S_default

\* the other cases of C23: a ProjectId value as the argument, and a rejected string
Wit_C23_id ==
    /\ op = "DatabaseName_from_project_id"
    /\ arg = IdArg(ProjectId(S_my_project))
    /\ result.ok

Wit_C23_err ==
    /\ op = "DatabaseName_from_project_id"
    /\ "str" \in DOMAIN arg
    /\ Len(arg.str) = 5
    /\ ~result.ok

(***************************************************************************)
(* C24: for every DatabaseName d, RootDocumentName::new(d),                *)
(* RootDocumentName::from(d) and d.root_document_name() are all equal to   *)
(* the RootDocumentName parsed from d's string + "/documents", and         *)
(* converting any of them back with DatabaseName::from returns a value     *)
(* equal to d.                                                             *)
(***************************************************************************)
RootOps ==
    {"DatabaseName_root_document_name", "DatabaseName_into_root_document_name",
     "RootDocumentName_new", "RootDocumentName_from_DatabaseName"}

\* the three ways from a DatabaseName to its root document
RootsOf(d) ==
    {RootDocumentName_new(d), RootDocumentName_from_DatabaseName(d),
     DatabaseName_root_document_name(d), DatabaseName_into_root_document_name(d)}

\* C24: every way from a DatabaseName to its root gives the parse of d + "/documents", and back.
Thm_C24 ==
    op \in RootOps =>
        /\ result \in RootsOf(recv.val)
        /\ \A r \in RootsOf(recv.val) :
            /\ Ok(r) = RootDocumentName_try_from(
                           DatabaseName_fmt(recv.val) \o <<"/">> \o S_documents)
            /\ DatabaseName_from_RootDocumentName(r) = recv.val

Wit_C24 ==
    /\ op = "DatabaseName_root_document_name"
    /\ recv.val = MyDatabase
    /\ DatabaseName_from_RootDocumentName(result) = MyDatabase
    /\ Typed("RootDocumentName", result) \in Held

(***************************************************************************)
(* C25: no parser and no navigation operation panics on any input; every   *)
(* validation failure is returned as an error value.  In particular the    *)
(* expect on the first character in ProjectId and DatabaseId parsing is    *)
(* reached only for non-empty strings, the subtraction parts.len() - 5 and *)
(* the slices parts[0..5] and parts[5..] in CollectionName and             *)
(* DocumentName parsing are evaluated only when there are at least 6       *)
(* parts, and the unreachable!() arms in DocumentPath::collection are      *)
(* never reached for any DocumentPath and CollectionPath.                  *)
(***************************************************************************)
\* the operations that return a value or an Option, which cannot fail
InfallibleOps ==
    {"init", "DatabaseName_root_document_name", "DatabaseName_into_root_document_name",
     "CollectionName_new", "DocumentName_new",
     "CollectionName_parent", "CollectionName_into_parent",
     "DocumentName_parent", "DocumentName_into_parent",
     "DocumentName_parent_document_name", "DocumentName_into_parent_document_name",
     "CollectionPath_parent", "DocumentPath_parent",
     "CollectionName_into_root_document_name",
     "CollectionPath_new", "DocumentPath_new", "RootDocumentName_new", "DatabaseName_new",
     "CollectionId_from_CollectionName", "CollectionPath_from_CollectionName",
     "DatabaseName_from_CollectionName", "DatabaseName_from_DocumentName",
     "DocumentId_from_DocumentName", "DocumentPath_from_DocumentName",
     "CollectionPath_from_DocumentPath", "DocumentId_from_DocumentPath",
     "CollectionId_from_CollectionPath", "OptionDocumentPath_from_CollectionPath",
     "CollectionPath_from_CollectionId", "DatabaseId_from_DatabaseName",
     "ProjectId_from_DatabaseName", "RootDocumentName_from_DatabaseName",
     "DatabaseName_from_RootDocumentName", "clone", "drop"}

\* a Result that is a value or an error value, not an unwinding
Returns(r) ==
    /\ "panic" \notin DOMAIN r
    /\ ~r.ok => "err" \in DOMAIN r

\* C25: every call returns; a failure is an error value.
Thm_C25 ==
    /\ op \notin InfallibleOps => Returns(result)
    /\ again # Nil => Returns(again)
    /\ op = "DocumentPath_collection" /\ TryIntoCollectionPath(arg).ok => result.ok

\* a CollectionName input of fewer than five parts, rejected before the subtraction
Wit_C25 ==
    /\ op = "CollectionName"
    /\ Len(input) >= 1
    /\ PartCount(input) < 5
    /\ ErrIs(result, "InvalidNumberOfPathComponents")

\* the other cases of C25: a structured argument of three identifiers re-rooted by
\* DocumentPath::collection, and the first character of a ProjectId examined
Wit_C25_collection ==
    /\ op = "DocumentPath_collection"
    /\ IsCollectionPathArg(arg)
    /\ CollectionPathSegments(arg.path) = 3
    /\ result.ok

Wit_C25_expect ==
    /\ op = "ProjectId"
    /\ Len(input) = 6
    /\ input[1] = "0"
    /\ ErrIs(result, "ToDo")

(***************************************************************************)
(* C26: every CollectionPath and DocumentPath value reachable by any       *)
(* sequence of parsers, constructors and navigation operations is an       *)
(* alternating chain collection, document, collection, ... that starts at  *)
(* a parentless collection: a CollectionPath formats to an odd number of   *)
(* segments, a DocumentPath to an even number of at least 2, a             *)
(* DocumentPath always has a parent, and every segment is a valid          *)
(* identifier containing no '/'.                                           *)
(***************************************************************************)
\* the paths the caller holds, on their own or inside a name, or has just parsed
CollectionPathsHeld ==
    {x.val : x \in Holding({"CollectionPath"})}
    \cup {x.val.collection_path : x \in Holding({"CollectionName"})}
    \cup (IF op = "CollectionPath" /\ result.ok THEN {result.val} ELSE {})
    \cup (IF op = "CollectionName" /\ result.ok THEN {result.val.collection_path} ELSE {})

DocumentPathsHeld ==
    {x.val : x \in Holding({"DocumentPath"})}
    \cup {x.val.document_path : x \in Holding({"DocumentName"})}
    \cup (IF op = "DocumentPath" /\ result.ok THEN {result.val} ELSE {})
    \cup (IF op = "DocumentName" /\ result.ok THEN {result.val.document_path} ELSE {})

\* an alternating chain down to a parentless collection, of valid identifiers
RECURSIVE CollectionChain(_), DocumentChain(_)
CollectionChain(c) ==
    /\ DOMAIN c = {"collection_id", "document_path"}
    /\ ValidIdString(c.collection_id.inner)
    /\ c.document_path # None => DocumentChain(c.document_path[1])
DocumentChain(d) ==
    /\ DOMAIN d = {"collection_path", "document_id"}
    /\ ValidIdString(d.document_id.inner)
    /\ CollectionChain(d.collection_path)

\* C26: the paths held are alternating chains of valid identifiers, odd for a collection, even for a document.
Thm_C26 ==
    /\ \A c \in CollectionPathsHeld :
        /\ CollectionChain(c)
        /\ PartCount(CollectionPath_fmt(c)) % 2 = 1
        /\ PartCount(CollectionPath_fmt(c)) = Len(CollectionPathIds(c))
    /\ \A d \in DocumentPathsHeld :
        /\ DocumentChain(d)
        /\ PartCount(DocumentPath_fmt(d)) % 2 = 0
        /\ PartCount(DocumentPath_fmt(d)) >= 2
        /\ PartCount(DocumentPath_fmt(d)) = Len(DocumentPathIds(d))
        /\ CollectionChain(DocumentPath_parent(d))

Wit_C26 ==
    /\ op = "DocumentPath_collection"
    /\ result.ok
    /\ \E c \in CollectionPathsHeld : c = result.val /\ PartCount(CollectionPath_fmt(c)) = 5

\* the other source of C26: a path from the parser
Wit_C26_parsed ==
    /\ op = "DocumentPath"
    /\ result.ok
    /\ \E d \in DocumentPathsHeld : PartCount(DocumentPath_fmt(d)) = 4

(***************************************************************************)
(* C27: CollectionId and DocumentId parsing check their rules in a fixed   *)
(* order (byte length, then '/', then "."/"..", then the reserved pattern) *)
(* and report the first rule violated: a string over 1500 bytes that also  *)
(* contains '/' yields LengthOutOfBounds, and "__/__" yields ContainsSlash *)
(* rather than MatchesReservedIdPattern.  DatabaseId parsing likewise      *)
(* reports length before character class, so a non-literal string of 3     *)
(* bytes with an uppercase letter yields LengthOutOfBounds.                *)
(***************************************************************************)
\* the first rule of CollectionId and DocumentId that s violates, "" when none
FirstIdRule(s) ==
    IF Len(s) < 1 \/ Len(s) > 1500 THEN "LengthOutOfBounds"
    ELSE IF HasSlash(s) THEN "ContainsSlash"
    ELSE IF s = <<".">> \/ s = <<".", ".">> THEN "SinglePeriodOrDoublePeriods"
    ELSE IF ReservedShape(s) THEN "MatchesReservedIdPattern"
    ELSE ""

\* the first rule of DatabaseId that a string other than "(default)" violates
FirstDatabaseIdRule(s) ==
    IF Len(s) < 4 \/ Len(s) > 63 THEN "LengthOutOfBounds"
    ELSE IF ~LowerDigitHyphen(s) THEN "ContainsInvalidCharacter"
    ELSE IF s[1] \notin Lower THEN "StartsWithNonLetter"
    ELSE IF s[Len(s)] = "-" THEN "EndsWithHyphen"
    ELSE ""

S_reserved_slash == <<"_", "_", "/", "_", "_">>

\* C27: identifier parsing reports the first rule violated, in the order of the rules.
Thm_C27 ==
    /\ op \in IdTypes =>
        /\ FirstIdRule(input) = "" => result.ok
        /\ FirstIdRule(input) # "" => ErrIs(result, FirstIdRule(input))
        /\ Len(input) > 1500 /\ HasSlash(input) => ErrIs(result, "LengthOutOfBounds")
        /\ input = S_reserved_slash => ErrIs(result, "ContainsSlash")
    /\ op = "DatabaseId" /\ input # S_default =>
        /\ FirstDatabaseIdRule(input) = "" => result.ok
        /\ FirstDatabaseIdRule(input) # "" => ErrIs(result, FirstDatabaseIdRule(input))
        /\ Len(input) = 3 /\ ~LowerDigitHyphen(input) => ErrIs(result, "LengthOutOfBounds")

Wit_C27 ==
    /\ op = "DocumentId"
    /\ Len(input) > 1500
    /\ HasSlash(input)
    /\ ErrIs(result, "LengthOutOfBounds")

\* the other examples of C27
Wit_C27_reserved ==
    /\ op = "CollectionId"
    /\ input = S_reserved_slash
    /\ ErrIs(result, "ContainsSlash")

Wit_C27_database ==
    /\ op = "DatabaseId"
    /\ Len(input) = 3
    /\ input[1] = "A"
    /\ ErrIs(result, "LengthOutOfBounds")

(***************************************************************************)
(* C28: descending one level and then ascending returns the starting       *)
(* value: c.doc(x).parent() equals c for every CollectionPath c and valid  *)
(* document id x; d.collection(y).parent() equals Some(d) for every        *)
(* DocumentPath d and valid collection id y; and the same holds for        *)
(* CollectionName.doc followed by DocumentName.parent and for              *)
(* DocumentName.collection followed by CollectionName.parent, with the     *)
(* root prefix unchanged.                                                  *)
(***************************************************************************)
\* the argument stands for one valid document id: a string that is one, or a
\* value that converts to its DocumentId
OneDocument(a) == "str" \in DOMAIN a => ValidIdString(a.str)

\* the argument stands for one valid collection id: a string that is one, or a
\* value that converts to a CollectionPath of one segment
OneCollection(a) ==
    IF "str" \in DOMAIN a THEN ValidIdString(a.str)
    ELSE CollectionPathSegments(TryIntoCollectionPath(a).val) = 1

\* C28: the parent of a one-level descent is the value descended from.
Thm_C28 ==
    /\ op = "CollectionPath_doc" /\ OneDocument(arg) =>
        /\ result.ok
        /\ DocumentPath_parent(result.val) = recv.val
    /\ op = "DocumentPath_collection" /\ OneCollection(arg) =>
        /\ result.ok
        /\ CollectionPath_parent(result.val) = Some(recv.val)
    /\ op \in {"CollectionName_doc", "CollectionName_into_doc"} /\ OneDocument(arg) =>
        /\ result.ok
        /\ DocumentName_parent(result.val) = recv.val
        /\ result.val.root_document_name = recv.val.root_document_name
    /\ op \in NameCollectionOps /\ OneCollection(arg) =>
        /\ result.ok
        /\ CollectionName_parent(result.val) = Some(recv.val)
        /\ result.val.root_document_name = recv.val.root_document_name

Wit_C28 ==
    /\ op = "CollectionPath_doc"
    /\ CollectionPathSegments(recv.val) = 3
    /\ arg = StrArg(S_chatroom1)
    /\ result.ok
    /\ DocumentPath_parent(result.val) = recv.val

\* the other three descents of C28
Wit_C28_collection ==
    /\ op = "DocumentPath_collection"
    /\ arg = StrArg(S_chatrooms)
    /\ result.ok
    /\ CollectionPath_parent(result.val) = Some(recv.val)

Wit_C28_name_doc ==
    /\ op = "CollectionName_doc"
    /\ "id" \in DOMAIN arg
    /\ result.ok
    /\ DocumentName_parent(result.val) = recv.val

Wit_C28_name_collection ==
    /\ op = "DocumentName_collection"
    /\ OneCollection(arg)
    /\ "str" \in DOMAIN arg
    /\ result.ok
    /\ CollectionName_parent(result.val) = Some(recv.val)

\* a descent of C28 whose argument is a value of another type, moved out of the
\* caller's hands and converted: the leaf of a DocumentPath as the document id,
\* the collection a DocumentPath lies in as the collection
Wit_C28_converted ==
    /\ op = "CollectionPath_doc"
    /\ IsDocumentPathArg(arg)
    /\ Typed("DocumentPath", arg.path) \notin Held
    /\ result.ok
    /\ result.val.document_id = arg.path.document_id
    /\ DocumentPath_parent(result.val) = recv.val

Wit_C28_converted_collection ==
    /\ op = "DocumentPath_collection"
    /\ IsDocumentPathArg(arg)
    /\ OneCollection(arg)
    /\ result.ok
    /\ CollectionPath_parent(result.val) = Some(recv.val)

(***************************************************************************)
(* C29: formatting is injective on every composite type: two               *)
(* CollectionPath, DocumentPath, DatabaseName, RootDocumentName,           *)
(* CollectionName or DocumentName values are equal exactly when their      *)
(* string forms are equal, whatever sequence of constructors, parsers and  *)
(* navigation operations produced them.                                    *)
(***************************************************************************)
Composites ==
    {"CollectionPath", "DocumentPath", "DatabaseName", "RootDocumentName",
     "CollectionName", "DocumentName"}

\* the string form of a typed composite value
Fmt(x) ==
    CASE x.type = "CollectionPath" -> CollectionPath_fmt(x.val)
      [] x.type = "DocumentPath" -> DocumentPath_fmt(x.val)
      [] x.type = "DatabaseName" -> DatabaseName_fmt(x.val)
      [] x.type = "RootDocumentName" -> RootDocumentName_fmt(x.val)
      [] x.type = "CollectionName" -> CollectionName_fmt(x.val)
      [] x.type = "DocumentName" -> DocumentName_fmt(x.val)

\* the path whose identifiers are the first n of ids, a collection for odd n
RECURSIVE PathOf(_, _)
PathOf(ids, n) ==
    IF n = 1 THEN CollectionPath_new(None, CollectionId(ids[1]))
    ELSE IF n % 2 = 1 THEN CollectionPath_new(Some(PathOf(ids, n - 1)), CollectionId(ids[n]))
    ELSE DocumentPath_new(PathOf(ids, n - 1), DocumentId(ids[n]))

\* the value of the given type that the parts of a string spell out, read
\* without any validation
Spelled(type, parts) ==
    LET db == DatabaseName_new(ProjectId(parts[2]), DatabaseId(parts[4]))
        tail == SubSeq(parts, RootParts + 1, Len(parts))
    IN  CASE type \in {"CollectionPath", "DocumentPath"} -> PathOf(parts, Len(parts))
          [] type = "DatabaseName" -> db
          [] type = "RootDocumentName" -> RootDocumentName_new(db)
          [] type = "CollectionName" ->
                [collection_path |-> PathOf(tail, Len(tail)),
                 root_document_name |-> RootDocumentName_new(db)]
          [] type = "DocumentName" ->
                [document_path |-> PathOf(tail, Len(tail)),
                 root_document_name |-> RootDocumentName_new(db)]

\* the composite values at hand: held by the caller, the receiver of the last
\* call, and the values the parser or the constructor has just returned
ValuesHeld ==
    {x \in Held : x.type \in Composites}
    \cup (IF recv # Nil /\ recv.type \in Composites THEN {recv} ELSE {})
    \cup (IF op \in Composites /\ result.ok
          THEN {Typed(op, result.val)}
                 \cup (IF again.ok THEN {Typed(op, again.val)} ELSE {})
          ELSE {})
    \cup (IF op = "DatabaseName_from_project_id" /\ result.ok
          THEN {Typed("DatabaseName", result.val)}
                 \cup (IF again.ok THEN {Typed("DatabaseName", again.val)} ELSE {})
          ELSE {})

\* C29: composite values are equal exactly when their strings are, and a string spells one value.
Thm_C29 ==
    /\ \A x, y \in ValuesHeld :
        x.type = y.type => (Fmt(x) = Fmt(y) <=> x.val = y.val)
    /\ \A x \in ValuesHeld : x.val = Spelled(x.type, split(Fmt(x)))

Wit_C29 ==
    /\ op = "DocumentName_doc"
    /\ result.ok
    /\ \E x, y \in ValuesHeld :
        /\ x = recv
        /\ y = Typed("DocumentName", result.val)
        /\ x.val # y.val
        /\ Fmt(x) # Fmt(y)

\* the equal case of C29: a value and the value parsed from its string
Wit_C29_equal ==
    /\ op = "CollectionName"
    /\ result.ok
    /\ again.ok
    /\ Typed(op, again.val) \in ValuesHeld
    /\ again.val = result.val
    /\ PartCount(text) = 8

(***************************************************************************)
(* C30: DocumentPath::collection terminates for every argument: its        *)
(* decomposition loop runs exactly once per collection segment of the      *)
(* argument and stops at the parentless collection, and the rebuild loop   *)
(* runs once per collected component; the mutually recursive               *)
(* CollectionPath/DocumentPath parsers terminate as well, because each     *)
(* recursive call receives a strictly shorter string.                      *)
(***************************************************************************)
\* the collection segments of the argument, once converted
CollectionSegments(a) == (CollectionPathSegments(TryIntoCollectionPath(a).val) + 1) \div 2

Slashes(s) == Cardinality({i \in 1..Len(s) : s[i] = "/"})

\* the loops of DocumentPath::collection take the turns the argument calls for
LoopTurns ==
    op = "DocumentPath_collection" =>
        /\ frame.pc = "decompose" =>
            /\ frame.turns < CollectionSegments(arg)
            /\ Len(frame.comps) = 2 * frame.turns
        /\ frame.pc \in {"rebuild", "done"} /\ TryIntoCollectionPath(arg).ok =>
            /\ frame.turns = CollectionSegments(arg)
            /\ CollectionPath_parent(frame.cur) = None
            /\ frame.comps = path_components(TryIntoCollectionPath(arg).val)
            /\ Len(frame.comps) = 2 * CollectionSegments(arg) - 1
            /\ frame.rturns + frame.k = Len(frame.comps)
        /\ frame.pc = "done" =>
            /\ result = DocumentPath_collection(recv.val, arg)
            /\ result.ok => frame.rturns = Len(frame.comps) /\ frame.k = 0
            /\ ~TryIntoCollectionPath(arg).ok => frame.turns = 0 /\ frame.rturns = 0

\* the calls in progress hold shorter and shorter strings, one call for each '/'
\* of the input at most, and the last return is the parser's result
CallDepth ==
    op \in {"CollectionPath", "DocumentPath"} =>
        /\ \A i \in 1..(Len(frame.stack) - 1) : Len(frame.stack[i + 1]) < Len(frame.stack[i])
        /\ frame.calls <= Slashes(input) + 1
        /\ frame.pc = "done" =>
            /\ frame.calls = Slashes(input) + 1
            /\ frame.stack = <<>>
            /\ op = "CollectionPath" => result = CollectionPath_try_from(input)
            /\ op = "DocumentPath" => result = DocumentPath_try_from(input)

\* a recursive call is given a string strictly shorter than its caller's
ShorterCall ==
    Len(frame'.stack) > Len(frame.stack) =>
        Len(frame'.stack[Len(frame'.stack)]) < Len(frame.stack[Len(frame.stack)])

\* C30: the loops of DocumentPath::collection take one turn for each collection segment and
\* for each component, each recursive parser call has a shorter string, and every run ends.
Thm_C30 ==
    /\ [](LoopTurns /\ CallDepth)
    /\ [][ShorterCall]_vars
    /\ <>(frame.pc = "done")

Wit_C30 ==
    /\ op = "DocumentPath_collection"
    /\ frame.pc = "done"
    /\ result.ok
    /\ CollectionSegments(arg) = 2
    /\ frame.turns = 2
    /\ frame.rturns = 3

\* the parsers of C30, at the end of a run of five calls
Wit_C30_parser ==
    /\ op = "DocumentPath"
    /\ frame.pc = "done"
    /\ frame.calls = 4
    /\ result.ok

====
